---- MODULE Spec2Model ----
(***************************************************************************)
(* A model of anaconda-packaging-utils: the HTTP fetch-and-validate        *)
(* gateway (api/_utils.py), the PyPI projections (api/pypi_api.py), the    *)
(* repodata fetch (api/repodata_api.py), the hash validators               *)
(* (cryptography/utils.py), the configuration cache                        *)
(* (storage/config_data.py), the command chain (cli/subshell.py) and the   *)
(* client singletons (api/github_api.py, api/jira_api.py).                 *)
(*                                                                         *)
(* Python strings are sequences of one-character strings; JSON values are *)
(* tagged records; the outcome of a call is a return value or a raised    *)
(* exception.                                                             *)
(***************************************************************************)
EXTENDS Integers, Sequences, FiniteSets, TLC

VARIABLES
    pc,     \* "called": an operation was invoked; "done": it has ended
    op,     \* the operation invoked
    arg,    \* its arguments
    resp,   \* the HTTP response its GET received (NoResponse before any GET)
    ret,    \* its outcome (NoOutcome while it runs)
    gets,   \* the endpoints it has issued a GET to, in order
    checks  \* the checks the gateway has applied to the response, in order

\* storage/config_data.py: the statics of ConfigData and the threads that
\* construct and use instances.
VARIABLES
    _config_tbl,    \* ConfigData._config_tbl: key-path -> value
    _file_path,     \* ConfigData._file_path
    _mutex,         \* ConfigData._mutex: Unlocked, or the thread that holds it
    threads,        \* each thread's position in __init__ and its locals
    opened,         \* the paths given to open(), in order
    constructed,    \* the constructions that have ended, in order
    lookup          \* the last `in` or `[]` and its outcome

\* cli/subshell.py: the locals of the running run_shell_chain.
VARIABLES
    cwd,                \* the working directory of the next command
    completed_procs,    \* the results collected so far
    ran                 \* the calls of run_shell made so far: command and directory

\* api/pypi_api.py: the lists PackageInfo.get_schema has built.
VARIABLES
    required_lists,     \* the `required` list objects allocated, by identity
    returned            \* argument and list identity of each schema returned

\* api/github_api.py, api/jira_api.py: the static client lists.
VARIABLES
    _gh,        \* GitHubApi._gh
    _jira,      \* JiraApi.__jira
    built       \* the calls of each underlying client's constructor: what each did

callVars == <<pc, op, arg, resp, ret, gets, checks>>

configVars == <<_config_tbl, _file_path, _mutex, threads, opened, constructed, lookup>>

shellVars == <<cwd, completed_procs, ran>>

schemaVars == <<required_lists, returned>>

clientVars == <<_gh, _jira, built>>

vars == <<callVars, configVars, shellVars, schemaVars, clientVars>>

(***************************************************************************)
(* Bounds of the enumerated inputs.                                        *)
(***************************************************************************)
MaxUrls == 3
MaxArtifacts == 3
MaxVersions == 2
MaxBuildNumber == 1
MaxHexLen == 3
MaxThreads == 2
MaxConstructions == 2
MaxCmds == 3
MaxSchemaCalls == 6
MaxApiCalls == 4

(***************************************************************************)
(* Python strings and conversions.                                         *)
(***************************************************************************)
Rep(c, n) == [i \in 1..n |-> c]

Digits == <<"0", "1", "2", "3", "4", "5", "6", "7", "8", "9">>

DigitChars == {Digits[i] : i \in 1..10}

DigitVal(c) == (CHOOSE i \in 1..10 : Digits[i] = c) - 1

\* Whether s[i..] starts with sub (i is 1-based).
StartsAt(s, sub, i) ==
    /\ i + Len(sub) - 1 <= Len(s)
    /\ \A j \in 1..Len(sub) : s[i + j - 1] = sub[j]

\* str.find: the 0-based index of the first occurrence of sub in s, or -1.
Find(s, sub) ==
    LET hits == {i \in 1..(Len(s) + 1) : StartsAt(s, sub, i)}
    IN  IF hits = {} THEN -1
        ELSE (CHOOSE i \in hits : \A j \in hits : i <= j) - 1

\* F applied to the value of e, e being evaluated once.
Let(e, F(_)) == CHOOSE y \in {F(x) : x \in {e}} : TRUE

\* Python truthiness of an int.
Truthy(n) == n # 0

RECURSIVE DecimalValue(_)
DecimalValue(s) ==
    IF Len(s) = 0 THEN 0
    ELSE 10 * DecimalValue(SubSeq(s, 1, Len(s) - 1)) + DigitVal(s[Len(s)])

AllDigits(s) == Len(s) > 0 /\ \A i \in 1..Len(s) : s[i] \in DigitChars

(***************************************************************************)
(* Outcomes of a call.                                                     *)
(***************************************************************************)
Return(v) == [kind |-> "return", value |-> v]

Raise(exc, msg, detail) == [kind |-> "raise", exc |-> exc, msg |-> msg, detail |-> detail]

Returned(r) == r.kind = "return"

Raised(r) == r.kind = "raise"

NoOutcome == [kind |-> "none"]

\* `raise ApiException(e.message) from e`
Wrap(exc, e) == Raise(exc, e.msg, e.detail)

(***************************************************************************)
(* JSON values.  An object with known keys is a record (tag "obj"); an     *)
(* object used as a mapping keeps its items in document order (tag "map"). *)
(***************************************************************************)
JN == [t |-> "null"]

JS(s) == [t |-> "str", s |-> s]

JI(n) == [t |-> "int", n |-> n]

JA(a) == [t |-> "arr", a |-> a]

JO(o) == [t |-> "obj", o |-> o]

JM(items) == [t |-> "map", items |-> items]

IsStr(v) == v.t = "str"

IsInt(v) == v.t = "int"

IsNull(v) == v.t = "null"

IsArr(v) == v.t = "arr"

IsObj(v) == v.t \in {"obj", "map"}

Keys(v) == IF v.t = "obj" THEN DOMAIN v.o ELSE {v.items[i].k : i \in 1..Len(v.items)}

\* str(x) of a JSON value that is a str or None.
PyStr(v) == IF IsStr(v) THEN v.s ELSE <<"N", "o", "n", "e">>

\* `x or ""` followed by str(): None and "" both give "".
PyStrOrEmpty(v) == IF IsStr(v) THEN v.s ELSE <<>>

\* int() of a str: a signed decimal literal, ValueError otherwise.
SignedDecimal(s, signed) ==
    IF ~AllDigits(IF signed THEN Tail(s) ELSE s) THEN [ok |-> FALSE, exc |-> "ValueError"]
    ELSE IF signed /\ s[1] = "-" THEN [ok |-> TRUE, n |-> 0 - DecimalValue(Tail(s))]
    ELSE [ok |-> TRUE, n |-> DecimalValue(IF signed THEN Tail(s) ELSE s)]

\* int(x): an int is returned as is, a str is parsed, None is a TypeError.
PyInt(v) ==
    IF IsInt(v) THEN [ok |-> TRUE, n |-> v.n]
    ELSE IF IsStr(v) THEN SignedDecimal(v.s, Len(v.s) > 0 /\ v.s[1] \in {"+", "-"})
    ELSE [ok |-> FALSE, exc |-> "TypeError"]

(***************************************************************************)
(* cryptography/utils.py                                                   *)
(***************************************************************************)
HexDigits ==
    {"0", "1", "2", "3", "4", "5", "6", "7", "8", "9",
     "a", "b", "c", "d", "e", "f", "A", "B", "C", "D", "E", "F"}

Md5Len == 32

Sha256Len == 64

Sha1Len == 40

\* A validator that knows the lower-case digits only.
is_valid_hex_lower_case(s) ==
    \A i \in 1..Len(s) : s[i] \in HexDigits \ {"A", "B", "C", "D", "E", "F"}

is_valid_hex(s) == \A i \in 1..Len(s) : s[i] \in HexDigits

\* A validator that checks the alphabet but not the length.
is_valid_md5_any_length(s) == is_valid_hex(s)

is_valid_md5(s) == Len(s) = Md5Len /\ is_valid_hex(s)

is_valid_sha256(s) == Len(s) = Sha256Len /\ is_valid_hex(s)

is_valid_sha1(s) == Len(s) = Sha1Len /\ is_valid_hex(s)

\* int(s, 16), as Python reads an integer literal in base 16: white space
\* around it is dropped, then come an optional sign, an optional 0x or 0X
\* (which one underscore may follow) and the digits, where single underscores
\* may stand between digits.  Anything else, the empty string included, is a
\* ValueError.
Whitespace == {" ", "\t", "\n", "\r", "\f"}

Strip(s) ==
    Let(CHOOSE a \in 1..Len(s) + 1 :
            /\ \A i \in 1..a - 1 : s[i] \in Whitespace
            /\ a = Len(s) + 1 \/ s[a] \notin Whitespace,
        LAMBDA a :
            Let(CHOOSE b \in a - 1..Len(s) :
                    /\ \A i \in b + 1..Len(s) : s[i] \in Whitespace
                    /\ b = a - 1 \/ s[b] \notin Whitespace,
                LAMBDA b : SubSeq(s, a, b)))

HasSign(t) == Len(t) > 0 /\ t[1] \in {"+", "-"}

Unsigned(t) == IF HasSign(t) THEN Tail(t) ELSE t

HasHexPrefix(t) == Len(t) >= 2 /\ t[1] = "0" /\ t[2] \in {"x", "X"}

Unprefixed(t) ==
    IF ~HasHexPrefix(t) THEN t
    ELSE IF Len(t) >= 3 /\ t[3] = "_" THEN SubSeq(t, 4, Len(t))
    ELSE SubSeq(t, 3, Len(t))

DigitsWellFormed(d) ==
    /\ Len(d) > 0
    /\ d[1] # "_" /\ d[Len(d)] # "_"
    /\ \A i \in 1..Len(d) : d[i] \in HexDigits \cup {"_"}
    /\ \A i \in 1..Len(d) - 1 : ~(d[i] = "_" /\ d[i + 1] = "_")

HexLower == <<"0", "1", "2", "3", "4", "5", "6", "7", "8", "9", "a", "b", "c", "d", "e", "f">>

HexUpper == <<"0", "1", "2", "3", "4", "5", "6", "7", "8", "9", "A", "B", "C", "D", "E", "F">>

HexDigitValue(c) == (CHOOSE i \in 1..16 : c \in {HexLower[i], HexUpper[i]}) - 1

RECURSIVE HexValue(_)
HexValue(d) ==
    IF Len(d) = 0 THEN 0
    ELSE IF d[Len(d)] = "_" THEN HexValue(SubSeq(d, 1, Len(d) - 1))
    ELSE 16 * HexValue(SubSeq(d, 1, Len(d) - 1)) + HexDigitValue(d[Len(d)])

int_base_16(s) ==
    Let(Strip(s), LAMBDA t :
        Let(Unprefixed(Unsigned(t)), LAMBDA d :
            IF ~DigitsWellFormed(d)
            THEN Raise("ValueError", "invalid literal for int() with base 16", s)
            ELSE IF HasSign(t) /\ t[1] = "-" THEN Return(0 - HexValue(d))
            ELSE Return(HexValue(d))))

cast_hex_str_to_int(s) == int_base_16(s)

(***************************************************************************)
(* api/_utils.py                                                           *)
(***************************************************************************)
\* check_for_empty_field(field, value): value is a str (JS) or None (JN).
check_for_empty_field(field, value) ==
    IF IsNull(value) \/ Len(value.s) = 0
    THEN Raise("BaseApiException", "field is empty", field)
    ELSE Return(JN)

(***************************************************************************)
(* JSON schemas (jsonschema semantics: `required` and `properties` bind    *)
(* only objects, a property's schema binds only a key that is present).    *)
(***************************************************************************)
HasType(v, types) == v.t \in types

\* The schema of key k of object v holds when k is absent or P(v.o[k]).
Prop(v, k, types) == k \in DOMAIN v.o => HasType(v.o[k], types)

VersionMetadataRequired ==
    {"digests", "filename", "python_version", "size", "upload_time_iso_8601", "url"}

\* VersionMetadata.get_schema()
VersionMetadataSchema(v) ==
    /\ v.t = "obj"
    /\ VersionMetadataRequired \subseteq DOMAIN v.o
    /\ v.o.digests.t = "obj"
    /\ {"md5", "sha256"} \subseteq DOMAIN v.o.digests.o
    /\ Prop(v.o.digests, "md5", {"str"})
    /\ Prop(v.o.digests, "sha256", {"str"})
    /\ Prop(v, "filename", {"str"})
    /\ Prop(v, "python_version", {"str"})
    /\ Prop(v, "size", {"int"})
    /\ Prop(v, "upload_time_iso_8601", {"str"})
    /\ Prop(v, "url", {"str"})

ArrayOf(v, P(_)) == IsArr(v) /\ \A i \in 1..Len(v.a) : P(v.a[i])

InfoRequired ==
    {"description", "description_content_type", "docs_url", "license", "name",
     "package_url", "project_url", "project_urls", "release_url",
     "requires_python", "summary", "version"}

InfoSchema(v) ==
    /\ v.t = "obj"
    /\ InfoRequired \subseteq DOMAIN v.o
    /\ Prop(v, "description", {"str", "null"})
    /\ Prop(v, "description_content_type", {"str", "null"})
    /\ Prop(v, "docs_url", {"str", "null"})
    /\ Prop(v, "license", {"str"})
    /\ Prop(v, "name", {"str"})
    /\ Prop(v, "package_url", {"str"})
    /\ Prop(v, "project_url", {"str"})
    /\ v.o.project_urls.t = "obj"
    /\ Prop(v.o.project_urls, "Homepage", {"str"})
    /\ Prop(v.o.project_urls, "Source", {"str"})
    /\ Prop(v, "release_url", {"str"})
    /\ Prop(v, "requires_python", {"str"})
    /\ Prop(v, "summary", {"str", "null"})
    /\ Prop(v, "version", {"str"})

\* The `releases` property: every key matches "^.*$", no other key is allowed.
ReleasesSchema(v) ==
    /\ IsObj(v)
    /\ v.t = "map" =>
        \A i \in 1..Len(v.items) : ArrayOf(v.items[i].v, VersionMetadataSchema)
    /\ v.t = "obj" =>
        \A k \in DOMAIN v.o : ArrayOf(v.o[k], VersionMetadataSchema)

\* PackageInfo.get_schema(requires_releases): the top-level `required` list.
PackageInfoRequired(requires_releases) ==
    IF requires_releases THEN <<"info", "urls", "releases">> ELSE <<"info", "urls">>

\* PackageInfo.get_schema(requires_releases), applied to v.
PackageInfoSchema(v, requires_releases) ==
    LET required == PackageInfoRequired(requires_releases)
    IN  /\ v.t = "obj"
        /\ \A i \in 1..Len(required) : required[i] \in DOMAIN v.o
        /\ InfoSchema(v.o.info)
        /\ "releases" \in DOMAIN v.o => ReleasesSchema(v.o.releases)
        /\ ArrayOf(v.o.urls, VersionMetadataSchema)

PackageDataRequired ==
    {"build", "build_number", "depends", "md5", "sha256", "name", "size", "version", "subdir"}

IsStrJ(v) == IsStr(v)

\* The `additionalProperties` schema of `packages` in _REPODATA_JSON_SCHEMA.
PackageDataSchema(v) ==
    /\ v.t = "obj"
    /\ PackageDataRequired \subseteq DOMAIN v.o
    /\ Prop(v, "build", {"str"})
    /\ Prop(v, "build_number", {"int"})
    /\ ArrayOf(v.o.depends, IsStrJ)
    /\ Prop(v, "md5", {"str"})
    /\ Prop(v, "sha256", {"str"})
    /\ Prop(v, "name", {"str"})
    /\ Prop(v, "size", {"int"})
    /\ Prop(v, "timestamp", {"int"})
    /\ Prop(v, "version", {"str"})
    /\ Prop(v, "subdir", {"str"})
    /\ Prop(v, "date", {"str"})
    /\ Prop(v, "track_features", {"str"})
    /\ Prop(v, "license", {"str", "null"})
    /\ Prop(v, "license_family", {"str", "null"})

\* _REPODATA_JSON_SCHEMA: `info` and `packages` declare no "type", so their
\* `required` / `properties` / `additionalProperties` bind only an object.
RepodataSchema(v) ==
    /\ v.t = "obj"
    /\ {"info", "packages", "removed", "repodata_version"} \subseteq DOMAIN v.o
    /\ v.o.info.t = "obj" =>
        /\ "subdir" \in DOMAIN v.o.info.o
        /\ Prop(v.o.info, "subdir", {"str"})
        /\ Prop(v.o.info, "arch", {"str"})
        /\ Prop(v.o.info, "platform", {"str"})
    /\ v.o.packages.t = "map" =>
        \A i \in 1..Len(v.o.packages.items) : PackageDataSchema(v.o.packages.items[i].v)
    /\ v.o.packages.t = "obj" =>
        \A k \in DOMAIN v.o.packages.o : PackageDataSchema(v.o.packages.o[k])
    /\ ArrayOf(v.o.removed, IsStrJ)
    /\ Prop(v, "repodata_version", {"int"})

\* schema_validate(response_json, schema) does not raise.
schema_validate(json, schema) ==
    CASE schema = "PackageInfo.get_schema(True)" -> PackageInfoSchema(json, TRUE)
      [] schema = "PackageInfo.get_schema(False)" -> PackageInfoSchema(json, FALSE)
      [] schema = "_REPODATA_JSON_SCHEMA" -> RepodataSchema(json)

(***************************************************************************)
(* HTTP responses: what requests.get did (returned a response, returned    *)
(* None, or raised), the status code, the headers, and the body: either    *)
(* text response.json() cannot parse or the JSON value it parses to.       *)
(***************************************************************************)
NoResponse == [transport |-> "unset"]

Response(status, headers, body) ==
    [transport |-> "ok", status |-> status, headers |-> headers, body |-> body]

TransportFailure == [transport |-> "raise"]

NoneReturned == [transport |-> "none"]

Unparseable == [parse |-> FALSE]

Parsed(json) == [parse |-> TRUE, json |-> json]

NoHeaders == [h \in {} |-> ""]

ContentType(value) == "content-type" :> value

\* `response.status_code != 200` does not hold.
StatusOk(r) == r.status = 200

\* `"content-type" in response.headers`
HasContentType(r) == "content-type" \in DOMAIN r.headers

\* A comparison with the media type written with its charset parameter.
IsJsonContentType_charset_only(content_type) ==
    content_type = "application/json; charset=utf-8"

\* A comparison that lets a media-type parameter through.
IsJsonContentType_with_parameters(content_type) ==
    content_type \in {"application/json", "application/json; charset=utf-8"}

\* `content_type != "application/json"` does not hold.
IsJsonContentType(content_type) == content_type = "application/json"

GatewayChecks == <<"get", "response", "status", "header", "content-type", "json", "schema">>

\* An outcome of the gateway, with the checks it went through: the first n.
Checked(outcome, n) == [ret |-> outcome, steps |-> SubSeq(GatewayChecks, 1, n)]

\* A gateway that looks at the content-type header before the status code.
ValidateResponse_header_first(r, schema) ==
    IF r.transport = "raise" THEN
        Checked(Raise("BaseApiException", "GET request failed.", ""), 1)
    ELSE IF r.transport = "none" THEN
        Checked(Raise("BaseApiException", "HTTP response was never set.", ""), 2)
    ELSE IF ~HasContentType(r) THEN
        Checked(Raise("BaseApiException", "API returned with no content-type header.", ""), 4)
    ELSE IF ~IsJsonContentType(r.headers["content-type"]) THEN
        Checked(Raise("BaseApiException", "API returned a non-JSON content-type",
                      r.headers["content-type"]), 5)
    ELSE IF ~StatusOk(r) THEN
        Checked(Raise("BaseApiException", "API returned a non-200 HTTP status code", r.status), 3)
    ELSE IF ~r.body.parse THEN
        Checked(Raise("BaseApiException", "Failed to parse JSON response.", ""), 6)
    ELSE IF ~schema_validate(r.body.json, schema) THEN
        Checked(Raise("BaseApiException", "Returned JSON does not match minimum schema.", ""), 7)
    ELSE Checked(Return(r.body.json), 7)

\* The checks of make_request_and_validate on what requests.get did (r), in
\* the order of the code; the first that fails raises.
ValidateResponse(r, schema) ==
    IF r.transport = "raise" THEN
        Checked(Raise("BaseApiException", "GET request failed.", ""), 1)
    ELSE IF r.transport = "none" THEN
        Checked(Raise("BaseApiException", "HTTP response was never set.", ""), 2)
    ELSE IF ~StatusOk(r) THEN
        Checked(Raise("BaseApiException", "API returned a non-200 HTTP status code", r.status), 3)
    ELSE IF ~HasContentType(r) THEN
        Checked(Raise("BaseApiException", "API returned with no content-type header.", ""), 4)
    ELSE IF ~IsJsonContentType(r.headers["content-type"]) THEN
        Checked(Raise("BaseApiException", "API returned a non-JSON content-type",
                      r.headers["content-type"]), 5)
    ELSE IF ~r.body.parse THEN
        Checked(Raise("BaseApiException", "Failed to parse JSON response.", ""), 6)
    ELSE IF ~schema_validate(r.body.json, schema) THEN
        Checked(Raise("BaseApiException", "Returned JSON does not match minimum schema.", ""), 7)
    ELSE Checked(Return(r.body.json), 7)

\* A gateway that issues the GET again when the first attempt failed.
make_request_and_validate_retrying(endpoint, schema, r) ==
    Let(ValidateResponse(r, schema), LAMBDA v :
        [ret |-> v.ret,
         gets |-> IF Raised(v.ret) THEN <<endpoint, endpoint>> ELSE <<endpoint>>,
         steps |-> v.steps])

\* make_request_and_validate(endpoint, schema) when its GET is answered by r:
\* the outcome, the GETs issued (one `requests.get`, before any check), and
\* the checks reached.
make_request_and_validate(endpoint, schema, r) ==
    Let(ValidateResponse(r, schema), LAMBDA v :
        [ret |-> v.ret, gets |-> <<endpoint>>, steps |-> v.steps])

(***************************************************************************)
(* datetime.datetime.fromisoformat, for the forms YYYY-MM-DD and           *)
(* YYYY-MM-DDTHH:MM:SS; every other argument (None included) is rejected.  *)
(***************************************************************************)
Num2(s, i) == 10 * DigitVal(s[i]) + DigitVal(s[i + 1])

IsLeap(y) == (y % 4 = 0 /\ y % 100 # 0) \/ y % 400 = 0

DaysIn(y, m) ==
    IF m = 2 THEN (IF IsLeap(y) THEN 29 ELSE 28)
    ELSE IF m \in {4, 6, 9, 11} THEN 30 ELSE 31

DateShape(s) ==
    /\ Len(s) >= 10
    /\ \A i \in {1, 2, 3, 4, 6, 7, 9, 10} : s[i] \in DigitChars
    /\ s[5] = "-" /\ s[8] = "-"

TimeShape(s) ==
    /\ Len(s) = 19
    /\ s[11] = "T"
    /\ \A i \in {12, 13, 15, 16, 18, 19} : s[i] \in DigitChars
    /\ s[14] = ":" /\ s[17] = ":"

DateTimeOf(y, m, d, hh, mm, ss) ==
    IF /\ y >= 1 /\ m \in 1..12 /\ d >= 1 /\ d <= DaysIn(y, m)
       /\ hh <= 23 /\ mm <= 59 /\ ss <= 59
    THEN [ok |-> TRUE,
          t |-> [year |-> y, month |-> m, day |-> d,
                 hour |-> hh, minute |-> mm, second |-> ss]]
    ELSE [ok |-> FALSE]

\* The two digits of s at i, 0 for a date without a time part.
TimePart(s, i) == IF Len(s) = 10 THEN 0 ELSE Num2(s, i)

fromisoformat(v) ==
    IF ~IsStr(v) THEN [ok |-> FALSE]
    ELSE IF ~(DateShape(v.s) /\ (Len(v.s) = 10 \/ TimeShape(v.s))) THEN [ok |-> FALSE]
    ELSE DateTimeOf(DecimalValue(SubSeq(v.s, 1, 4)), Num2(v.s, 6), Num2(v.s, 9),
                    TimePart(v.s, 12), TimePart(v.s, 15), TimePart(v.s, 18))

(***************************************************************************)
(* api/pypi_api.py                                                         *)
(***************************************************************************)
PypiApiException == "pypi_api.ApiException"

_BASE_URL == "https://pypi.python.org/pypi"

_calc_package_metadata_url(package) == <<_BASE_URL, package, "json">>

_calc_package_version_metadata_url(package, version) == <<_BASE_URL, package, version, "json">>

SourceTag == <<"s", "o", "u", "r", "c", "e">>

DotTar == <<".", "t", "a", "r">>

\* `x["python_version"] == "source"`
IsSource(artifact) ==
    IsStr(artifact.o.python_version) /\ artifact.o.python_version.s = SourceTag

\* The first failing check_for_empty_field of a list of <<field, value>> pairs,
\* re-raised as ApiException; Return when none fails.
RECURSIVE CheckFields(_)
CheckFields(pairs) ==
    IF Len(pairs) = 0 THEN Return(JN)
    ELSE LET c == check_for_empty_field(pairs[1][1], JS(pairs[1][2]))
         IN  IF Raised(c) THEN Wrap(PypiApiException, c) ELSE CheckFields(Tail(pairs))

\* `e` unless it raised, then `otherwise`.
OrElse(e, otherwise) == IF Raised(e) THEN e ELSE otherwise

\* The second int(), inside the try block, of the int the first one gave.
SizeInTry(n, second) ==
    IF second.ok THEN Return(second.n)
    ELSE Raise(PypiApiException, "Failed to convert size", n)

\* The coercion of `size`: int(data["size"]) before the try block, then
\* int() of that int inside it.
SizeAfter(data, first) ==
    IF ~first.ok THEN Raise(first.exc, "invalid literal for int()", data.o.size)
    ELSE SizeInTry(first.n, PyInt(JI(first.n)))

SizeOf(data) == SizeAfter(data, PyInt(data.o.size))

\* The checks of _parse_version_metadata on the record it has built.
ValidateVersionMetadata(parsed) ==
    IF ~is_valid_md5(parsed.md5) THEN
        Raise(PypiApiException, "VersionMetadata MD5 hash is invalid", parsed.md5)
    ELSE IF ~is_valid_sha256(parsed.sha256) THEN
        Raise(PypiApiException, "VersionMetadata SHA-256 hash is invalid", parsed.md5)
    ELSE OrElse(CheckFields(<<
                    <<"VersionMetadata.filename", parsed.filename>>,
                    <<"VersionMetadata.python_version", parsed.python_version>> >>),
                Return(parsed))

\* _parse_version_metadata after the two conversions.
VersionMetadataOf(data, time, size) ==
    IF ~time.ok THEN
        Raise(PypiApiException, "Failed to convert timestamp", data.o.upload_time_iso_8601)
    ELSE IF Raised(size) THEN size
    ELSE ValidateVersionMetadata(
            [md5 |-> PyStr(data.o.digests.o.md5),
             sha256 |-> PyStr(data.o.digests.o.sha256),
             filename |-> PyStr(data.o.filename),
             python_version |-> PyStr(data.o.python_version),
             size |-> size.value,
             upload_time |-> time.t,
             url |-> PyStrOrEmpty(data.o.url)])

_parse_version_metadata(data) ==
    VersionMetadataOf(data, fromisoformat(data.o.upload_time_iso_8601), SizeOf(data))

\* Indices of the "source"-tagged entries of a list of artifacts, ascending.
SourceIndices(artifacts) == {i \in 1..Len(artifacts) : IsSource(artifacts[i])}

Min(S) == CHOOSE i \in S : \A j \in S : i <= j

\* Checks that look at `name` before `license`.
ValidatePackageInfo_name_first(parsed) ==
    OrElse(CheckFields(<<
               <<"PackageInfo.name", parsed.name>>,
               <<"PackageInfo.license", parsed.license>>,
               <<"PackageInfo.package_url", parsed.package_url>>,
               <<"PackageInfo.project_url", parsed.project_url>>,
               <<"PackageInfo.release_url", parsed.release_url>>,
               <<"PackageInfo.version", parsed.version>> >>),
           Return(parsed))

\* The checks of _parse_package_info on the record it has built.
ValidatePackageInfo(parsed) ==
    OrElse(CheckFields(<<
               <<"PackageInfo.license", parsed.license>>,
               <<"PackageInfo.name", parsed.name>>,
               <<"PackageInfo.package_url", parsed.package_url>>,
               <<"PackageInfo.project_url", parsed.project_url>>,
               <<"PackageInfo.release_url", parsed.release_url>>,
               <<"PackageInfo.version", parsed.version>> >>),
           Return(parsed))

\* _parse_package_info once the "source" entry of `urls` is projected.
PackageInfoOf(info, version_metadata) ==
    IF Raised(version_metadata) THEN version_metadata
    ELSE ValidatePackageInfo(
            [description |-> PyStrOrEmpty(info.description),
             description_content_type |-> PyStrOrEmpty(info.description_content_type),
             docs_url |-> PyStrOrEmpty(info.docs_url),
             license |-> PyStr(info.license),
             name |-> PyStr(info.name),
             package_url |-> PyStr(info.package_url),
             project_url |-> PyStr(info.project_url),
             homepage_url |-> IF "Homepage" \in DOMAIN info.project_urls.o
                              THEN PyStr(info.project_urls.o.Homepage) ELSE <<>>,
             source_url |-> IF "Source" \in DOMAIN info.project_urls.o
                            THEN PyStr(info.project_urls.o.Source) ELSE <<>>,
             release_url |-> PyStr(info.release_url),
             requires_python |-> PyStr(info.requires_python),
             summary |-> PyStrOrEmpty(info.summary),
             version |-> PyStr(info.version),
             source_metadata |-> version_metadata.value])

\* A loop over `urls` without the `break`: the last "source" entry wins.
_parse_package_info_no_break(data) ==
    Let(SourceIndices(data.o.urls.a), LAMBDA sources :
        IF sources = {} THEN Raise(PypiApiException, "Source artifacts are not provided!", "")
        ELSE Let(_parse_version_metadata(
                    data.o.urls.a[CHOOSE i \in sources : \A j \in sources : j <= i]),
                 LAMBDA version_metadata : PackageInfoOf(data.o.info.o, version_metadata)))

\* The loop over `urls`: the first "source" entry is projected, then `break`.
_parse_package_info(data) ==
    Let(SourceIndices(data.o.urls.a), LAMBDA sources :
        IF sources = {} THEN Raise(PypiApiException, "Source artifacts are not provided!", "")
        ELSE Let(_parse_version_metadata(data.o.urls.a[Min(sources)]),
                 LAMBDA version_metadata : PackageInfoOf(data.o.info.o, version_metadata)))

\* One step of the inner loop, `parsed` being the projection of artifacts[1].
RECURSIVE ReleaseArtifacts(_, _)
ReleaseArtifactsStep(artifacts, acc, parsed) ==
    IF Raised(parsed) THEN parsed
    ELSE ReleaseArtifacts(Tail(artifacts), Append(acc, parsed.value))

\* The inner loop of fetch_package_metadata: the VersionMetadata of every
\* "source" artifact of one version, in listed order, or the first error.
ReleaseArtifacts(artifacts, acc) ==
    IF Len(artifacts) = 0 THEN Return(acc)
    ELSE IF ~IsSource(artifacts[1]) THEN ReleaseArtifacts(Tail(artifacts), acc)
    ELSE Let(_parse_version_metadata(artifacts[1]),
             LAMBDA parsed : ReleaseArtifactsStep(artifacts, acc, parsed))

\* The for/else over release_artifacts: `if rel_artifact.filename.find(".tar")`
\* selects and breaks; the else branch takes release_artifacts[0].
PreferTarball(release_artifacts, hits) ==
    IF hits = {} THEN release_artifacts[1] ELSE release_artifacts[Min(hits)]

SelectArtifact(release_artifacts) ==
    PreferTarball(release_artifacts,
                  {i \in 1..Len(release_artifacts) :
                      Truthy(Find(release_artifacts[i].filename, DotTar))})

\* A selection without the guard on an empty list: release_artifacts[0] fails.
ReleaseOf_unguarded(release_artifacts) ==
    IF Len(release_artifacts) = 0 THEN Raise("IndexError", "list index out of range", "")
    ELSE IF Len(release_artifacts) = 1 THEN Return(release_artifacts[1])
    ELSE Return(SelectArtifact(release_artifacts))

\* What one version contributes to `releases`.
ReleaseOf(release_artifacts) ==
    IF Len(release_artifacts) = 0 THEN
        Raise(PypiApiException, "API did not return any source artifacts.", "")
    ELSE IF Len(release_artifacts) = 1 THEN Return(release_artifacts[1])
    ELSE Return(SelectArtifact(release_artifacts))

\* The artifact of one version: the first error of the inner loop, or the selection.
ReleaseOfVersion(collected) ==
    IF Raised(collected) THEN collected ELSE ReleaseOf(collected.value)

\* The loop over rel_json.items(), from item i on, with `releases` so far.
RECURSIVE ReleasesLoop(_, _, _)
ReleasesLoopStep(items, i, releases, release) ==
    IF Raised(release) THEN release
    ELSE ReleasesLoop(items, i + 1, (items[i].k :> release.value) @@ releases)

ReleasesLoop(items, i, releases) ==
    IF i > Len(items) THEN Return(releases)
    ELSE Let(ReleaseOfVersion(ReleaseArtifacts(items[i].v.a, <<>>)),
             LAMBDA release : ReleasesLoopStep(items, i, releases, release))

\* An aggregation that starts from an empty `releases`.
AggregateReleases_unseeded(response_json) ==
    Let(_parse_package_info(response_json), LAMBDA info :
        IF Raised(info) THEN info
        ELSE Let(ReleasesLoop(response_json.o.releases.items, 1, [v \in {} |-> JN]),
                 LAMBDA releases :
                    IF Raised(releases) THEN releases
                    ELSE IF DOMAIN releases.value = {} THEN
                        Raise(PypiApiException, "API did not return any source information.", "")
                    ELSE Return([info |-> info.value, releases |-> releases.value])))

\* An aggregation in which the seeded entry is kept when `releases` lists the
\* version too.
AggregateReleases_seed_wins(response_json) ==
    Let(_parse_package_info(response_json), LAMBDA info :
        IF Raised(info) THEN info
        ELSE Let(ReleasesLoop(response_json.o.releases.items, 1,
                              info.value.version :> info.value.source_metadata),
                 LAMBDA releases :
                    IF Raised(releases) THEN releases
                    ELSE Return([info |-> info.value,
                                 releases |-> (info.value.version :> info.value.source_metadata)
                                              @@ releases.value])))

\* The body of fetch_package_metadata after the request: the projection of
\* response_json and the aggregation of its `releases`.
AggregateReleases(response_json) ==
    Let(_parse_package_info(response_json), LAMBDA info :
        IF Raised(info) THEN info
        ELSE Let(ReleasesLoop(response_json.o.releases.items, 1,
                              info.value.version :> info.value.source_metadata),
                 LAMBDA releases :
                    IF Raised(releases) THEN releases
                    ELSE IF DOMAIN releases.value = {} THEN
                        Raise(PypiApiException, "API did not return any source information.", "")
                    ELSE Return([info |-> info.value, releases |-> releases.value])))

\* fetch_package_metadata(package) when its GET is answered by r.
fetch_package_metadata(package, r) ==
    Let(make_request_and_validate(
            _calc_package_metadata_url(package), "PackageInfo.get_schema(True)", r),
        LAMBDA got :
            [ret |-> IF Raised(got.ret) THEN Wrap(PypiApiException, got.ret)
                     ELSE AggregateReleases(got.ret.value),
             gets |-> got.gets,
             steps |-> got.steps])

\* The body of fetch_package_version_metadata after the request.
SingleRelease(response_json) ==
    Let(_parse_package_info(response_json), LAMBDA info :
        IF Raised(info) THEN info
        ELSE Return([info |-> info.value,
                     releases |-> info.value.version :> info.value.source_metadata]))

\* fetch_package_version_metadata(package, version) when its GET is answered by r.
fetch_package_version_metadata(package, version, r) ==
    Let(make_request_and_validate(
            _calc_package_version_metadata_url(package, version),
            "PackageInfo.get_schema(False)", r),
        LAMBDA got :
            [ret |-> IF Raised(got.ret) THEN Wrap(PypiApiException, got.ret)
                     ELSE SingleRelease(got.ret.value),
             gets |-> got.gets,
             steps |-> got.steps])

(***************************************************************************)
(* api/repodata_api.py                                                     *)
(***************************************************************************)
RepodataApiException == "repodata_api.ApiException"

\* The values of the Channel enumeration.
Channel == {"main", "free", "r", "pro", "archive", "mro-archive", "msys2"}

\* The values of the Architecture enumeration.
Architecture ==
    {"linux-64", "linux-32", "linux-aarch64", "linux-armv6l", "linux-armv7l",
     "linux-s390x", "linux-ppc64le", "osx-arm64", "osx-64", "osx-32",
     "win-64", "win-32", "noarch"}

LegacyArchitectures ==
    {"linux-64", "linux-32", "linux-armv6l", "linux-armv7l", "linux-ppc64le",
     "osx-64", "osx-32", "win-64", "win-32", "noarch"}

_SUPPORTED_CHANNEL_ARCH ==
    [c \in Channel |->
        CASE c = "main" ->
                {"linux-64", "linux-32", "linux-aarch64", "linux-s390x", "linux-ppc64le",
                 "osx-64", "osx-arm64", "win-64", "win-32", "noarch"}
          [] c = "msys2" -> {"win-64", "win-32"}
          [] OTHER -> LegacyArchitectures]

_BASE_REPODATA_URL == "https://repo.anaconda.com/pkgs"

\* A URL calculation that checks the channel only.
_calc_request_url_any_arch(channel, arch) ==
    IF channel \notin DOMAIN _SUPPORTED_CHANNEL_ARCH THEN
        Raise(RepodataApiException, "Requested package channel is not supported", channel)
    ELSE Return(<<_BASE_REPODATA_URL, channel, arch, "repodata.json">>)

_calc_request_url(channel, arch) ==
    IF channel \notin DOMAIN _SUPPORTED_CHANNEL_ARCH THEN
        Raise(RepodataApiException, "Requested package channel is not supported", channel)
    ELSE IF arch \notin _SUPPORTED_CHANNEL_ARCH[channel] THEN
        Raise(RepodataApiException,
              "Requested architecture is not supported by this channel", <<arch, channel>>)
    ELSE Return(<<_BASE_REPODATA_URL, channel, arch, "repodata.json">>)

\* init_optional_str / init_optional_int: the value as it is, None when absent.
init_optional(field, obj) == IF field \notin DOMAIN obj.o THEN JN ELSE obj.o[field]

_serialize_repodata_metadata(obj) ==
    [subdir |-> obj.o.subdir,
     arch |-> init_optional("arch", obj),
     platform |-> init_optional("platform", obj)]

_serialize_package_data(obj) ==
    [build |-> obj.o.build,
     build_number |-> obj.o.build_number,
     depends |-> obj.o.depends,
     md5 |-> obj.o.md5,
     sha256 |-> obj.o.sha256,
     name |-> obj.o.name,
     size |-> obj.o.size,
     version |-> obj.o.version,
     subdir |-> obj.o.subdir,
     timestamp |-> init_optional("timestamp", obj),
     date |-> init_optional("date", obj),
     track_features |-> init_optional("track_features", obj),
     license |-> init_optional("license", obj),
     license_family |-> init_optional("license_family", obj)]

\* The value of key k of an object (in a mapping the last item wins, as in a dict).
ItemOf(obj, k) ==
    IF obj.t = "obj" THEN obj.o[k]
    ELSE obj.items[CHOOSE i \in 1..Len(obj.items) :
             obj.items[i].k = k /\ \A j \in 1..Len(obj.items) : obj.items[j].k = k => j <= i].v

\* _serialize_repodata(obj): `packages.items()` needs a dict, `obj["info"]["subdir"]`
\* a dict too; the schema lets a value of another type through for both.
_serialize_repodata(obj) ==
    LET packages == obj.o.packages
        info == obj.o.info
    IN  IF ~IsObj(packages) THEN
            Raise("AttributeError", "object has no attribute 'items'", "packages")
        ELSE IF ~IsObj(info) THEN
            Raise("TypeError", "info is not subscriptable by a str key", "info")
        ELSE Return(
            [info |-> _serialize_repodata_metadata(info),
             packages |-> [k \in Keys(packages) |->
                              _serialize_package_data(ItemOf(packages, k))],
             removed |-> obj.o.removed,
             repodata_version |-> obj.o.repodata_version])

\* fetch_repodata(channel, arch) when its GET, if any, is answered by r.
fetch_repodata(channel, arch, r) ==
    Let(_calc_request_url(channel, arch), LAMBDA request_url :
        IF Raised(request_url) THEN [ret |-> request_url, gets |-> <<>>, steps |-> <<>>]
        ELSE Let(make_request_and_validate(request_url.value, "_REPODATA_JSON_SCHEMA", r),
                 LAMBDA got :
                    [ret |-> IF Raised(got.ret) THEN Wrap(RepodataApiException, got.ret)
                             ELSE _serialize_repodata(got.ret.value),
                     gets |-> got.gets,
                     steps |-> got.steps]))

(***************************************************************************)
(* conda.models.version.VersionOrder, as PackageData.__lt__ uses it, on     *)
(* version strings without epoch ("!") and local part ("+"), made of       *)
(* digits, letters and dots; the runs "post" and "dev", which conda treats *)
(* specially, do not occur in them.                                        *)
(***************************************************************************)
LowerCase ==
    <<"a", "b", "c", "d", "e", "f", "g", "h", "i", "j", "k", "l", "m",
      "n", "o", "p", "q", "r", "s", "t", "u", "v", "w", "x", "y", "z">>

UpperCase ==
    <<"A", "B", "C", "D", "E", "F", "G", "H", "I", "J", "K", "L", "M",
      "N", "O", "P", "Q", "R", "S", "T", "U", "V", "W", "X", "Y", "Z">>

\* str.lower(), character by character.
Lower(s) ==
    [i \in 1..Len(s) |->
        IF \E k \in 1..26 : UpperCase[k] = s[i]
        THEN LowerCase[CHOOSE k \in 1..26 : UpperCase[k] = s[i]]
        ELSE s[i]]

\* The characters version_check_re admits.
VersionCheckChars ==
    DigitChars \cup {LowerCase[k] : k \in 1..26} \cup {"*", ".", "+", "!", "_"}

\* version.split("."): the components between the dots.
RECURSIVE SplitDots(_, _)
SplitDots(s, component) ==
    IF Len(s) = 0 THEN <<component>>
    ELSE IF s[1] = "." THEN <<component>> \o SplitDots(Tail(s), <<>>)
    ELSE SplitDots(Tail(s), Append(component, s[1]))

\* The length of the longest prefix of s made of digits only (digit = TRUE)
\* or of no digit (digit = FALSE).
RECURSIVE RunLength(_, _)
RunLength(s, digit) ==
    IF Len(s) = 0 \/ (s[1] \in DigitChars) # digit THEN 0
    ELSE 1 + RunLength(Tail(s), digit)

IntAtom(n) == [t |-> "int", n |-> n, s |-> <<>>]

StrAtom(s) == [t |-> "str", n |-> 0, s |-> s]

\* version_split_re.findall(component), the runs of numerals converted to int.
RECURSIVE RunsOf(_)
RunsFrom(s, k) ==
    <<IF s[1] \in DigitChars THEN IntAtom(DecimalValue(SubSeq(s, 1, k)))
      ELSE StrAtom(SubSeq(s, 1, k))>>
    \o RunsOf(SubSeq(s, k + 1, Len(s)))

RunsOf(s) == IF Len(s) = 0 THEN <<>> ELSE RunsFrom(s, RunLength(s, s[1] \in DigitChars))

\* The value of fillvalue.
FillValue == IntAtom(0)

\* A component as VersionOrder keeps it: its runs, led by the fill value when
\* the component does not start with a digit.
ComponentOf(c) == IF c[1] \in DigitChars THEN RunsOf(c) ELSE <<FillValue>> \o RunsOf(c)

\* The components of a checked version string, after the epoch ["0"].
VersionOrderOf(components) ==
    IF \E k \in 1..Len(components) : components[k] = <<>> THEN
        Raise("InvalidVersionSpec", "empty version component", "")
    ELSE Return(<<<<IntAtom(0)>>>> \o [k \in 1..Len(components) |-> ComponentOf(components[k])])

VersionOrderChecked(version) ==
    IF version = <<>> THEN Raise("InvalidVersionSpec", "empty version string", "")
    ELSE IF \E i \in 1..Len(version) : version[i] \notin VersionCheckChars THEN
        Raise("InvalidVersionSpec", "invalid character(s)", "")
    ELSE VersionOrderOf(SplitDots(version, <<>>))

\* VersionOrder(vstr): the parsed version, or InvalidVersionSpec.
VersionOrder(vstr) == VersionOrderChecked(Lower(vstr))

Max2(a, b) == IF a >= b THEN a ELSE b

\* Atom j of component i of a parsed version, as zip_longest fills it.
AtomAt(t, i, j) ==
    IF i > Len(t) THEN FillValue
    ELSE IF j > Len(t[i]) THEN FillValue
    ELSE t[i][j]

WidthAt(t, i) == IF i > Len(t) THEN 0 ELSE Len(t[i])

\* The length of the longest component of a parsed version.
Widest(t) == CHOOSE w \in {Len(t[i]) : i \in 1..Len(t)} : \A i \in 1..Len(t) : Len(t[i]) <= w

\* The positions at which two parsed versions differ.
Differences(t1, t2) ==
    {p \in {<<i, j>> : i \in 1..Max2(Len(t1), Len(t2)), j \in 1..Max2(Widest(t1), Widest(t2))} :
        /\ p[2] <= Max2(WidthAt(t1, p[1]), WidthAt(t2, p[1]))
        /\ AtomAt(t1, p[1], p[2]) # AtomAt(t2, p[1], p[2])}

\* VersionOrder.__eq__
VersionOrderEq(t1, t2) == Differences(t1, t2) = {}

\* The rank of a character in str comparison (digits before letters).
CharRank(c) ==
    IF c \in DigitChars THEN DigitVal(c)
    ELSE 10 + (CHOOSE k \in 1..26 : LowerCase[k] = c)

\* s1 < s2 on str.
RECURSIVE StrLt(_, _)
StrLt(s1, s2) ==
    IF Len(s2) = 0 THEN FALSE
    ELSE IF Len(s1) = 0 THEN TRUE
    ELSE IF s1[1] # s2[1] THEN CharRank(s1[1]) < CharRank(s2[1])
    ELSE StrLt(Tail(s1), Tail(s2))

\* The comparison of the first pair of atoms that differ.
AtomLt(c1, c2) ==
    IF c1.t = "str" /\ c2.t # "str" THEN TRUE
    ELSE IF c1.t # "str" /\ c2.t = "str" THEN FALSE
    ELSE IF c1.t = "str" THEN StrLt(c1.s, c2.s)
    ELSE c1.n < c2.n

FirstDifference(D) ==
    CHOOSE p \in D : \A q \in D : p[1] < q[1] \/ (p[1] = q[1] /\ p[2] <= q[2])

VersionOrderLtAt(t1, t2, D) ==
    IF D = {} THEN FALSE
    ELSE AtomLt(AtomAt(t1, FirstDifference(D)[1], FirstDifference(D)[2]),
                AtomAt(t2, FirstDifference(D)[1], FirstDifference(D)[2]))

\* VersionOrder.__lt__
VersionOrderLt(t1, t2) == VersionOrderLtAt(t1, t2, Differences(t1, t2))

(***************************************************************************)
(* PackageData: `<`, `>` and `==`.                                         *)
(***************************************************************************)
\* isinstance(other, PackageData)
IsPackageData(other) == "build_number" \in DOMAIN other

\* A comparison without the `except InvalidVersionSpec`.
CompareVersions_uncaught(self, other, self_v, other_v) ==
    IF Raised(self_v) THEN self_v
    ELSE IF Raised(other_v) THEN other_v
    ELSE IF VersionOrderEq(self_v.value, other_v.value) THEN
        Return(self.build_number.n < other.build_number.n)
    ELSE Return(VersionOrderLt(self_v.value, other_v.value))

\* A comparison that consults the build number before the versions.
CompareVersions_build_first(self, other, self_v, other_v) ==
    IF Raised(self_v) \/ Raised(other_v) THEN Return(FALSE)
    ELSE IF self.build_number.n < other.build_number.n THEN Return(TRUE)
    ELSE Return(VersionOrderLt(self_v.value, other_v.value))

\* The body of the try block of PackageData.__lt__.
CompareVersions(self, other, self_v, other_v) ==
    IF Raised(self_v) \/ Raised(other_v) THEN Return(FALSE)
    ELSE IF VersionOrderEq(self_v.value, other_v.value) THEN
        Return(self.build_number.n < other.build_number.n)
    ELSE Return(VersionOrderLt(self_v.value, other_v.value))

\* A comparison that does not look at the names.
PackageData_lt_any_name(self, other) ==
    IF ~IsPackageData(other) THEN Return(FALSE)
    ELSE CompareVersions(self, other, VersionOrder(self.version.s), VersionOrder(other.version.s))

\* PackageData.__lt__(self, other)
PackageData_lt(self, other) ==
    IF ~IsPackageData(other) THEN Return(FALSE)
    ELSE IF self.name # other.name THEN Return(FALSE)
    ELSE CompareVersions(self, other, VersionOrder(self.version.s), VersionOrder(other.version.s))

\* `self > other`: the dataclass defines no __gt__, so Python evaluates the
\* reflected other.__lt__(self); a non-PackageData has none that accepts it.
PackageData_gt(self, other) ==
    IF IsPackageData(other) THEN PackageData_lt(other, self)
    ELSE Raise("TypeError", "'>' not supported between instances", "")

\* The fields of the dataclass, in declaration order.
PackageDataFields ==
    <<"build", "build_number", "depends", "md5", "sha256", "name", "size", "version",
      "subdir", "timestamp", "date", "track_features", "license", "license_family">>

\* An equality that leaves build_number out of the comparison.
PackageData_eq_without_build_number(self, other) ==
    IF ~IsPackageData(other) THEN Return(FALSE)
    ELSE Return(\A k \in 1..Len(PackageDataFields) :
                    \/ PackageDataFields[k] = "build_number"
                    \/ self[PackageDataFields[k]] = other[PackageDataFields[k]])

\* `self == other`: the __eq__ the dataclass decorator generates compares the
\* tuples of fields of two instances of the class; any other value is unequal.
PackageData_eq(self, other) ==
    IF ~IsPackageData(other) THEN Return(FALSE)
    ELSE Return(\A k \in 1..Len(PackageDataFields) :
                    self[PackageDataFields[k]] = other[PackageDataFields[k]])

(***************************************************************************)
(* The enumerated inputs.                                                  *)
(***************************************************************************)
\* All sequences over S of length at most n.
SeqsUpTo(S, n) == UNION {[1..m -> S] : m \in 0..n}

Str_x == <<"x">>

Str_p_tar == <<"p", ".", "t", "a", "r">>

Str_p_zip == <<"p", ".", "z", "i", "p">>

Str_p_whl == <<"p", ".", "w", "h", "l">>

Str_py3 == <<"p", "y", "3">>

Str_123 == <<"1", "2", "3">>

Str_abc == <<"a", "b", "c">>

Str_date == <<"2", "0", "2", "0", "-", "0", "1", "-", "0", "2">>

Str_datetime == Str_date \o <<"T", "0", "3", ":", "0", "4", ":", "0", "5">>

Str_bad_month == <<"2", "0", "2", "0", "-", "1", "3", "-", "0", "2">>

GoodMd5 == Rep("a", Md5Len)

GoodSha256 == Rep("0", Sha256Len)

Md5Values ==
    {JS(GoodMd5), JS(Rep("F", Md5Len)), JS(Rep("a", Md5Len - 1)), JS(Rep("a", Md5Len + 1)),
     JS([GoodMd5 EXCEPT ![7] = "g"]), JS(<<>>)}

Sha256Values ==
    {JS(GoodSha256), JS(Rep("0", Sha256Len - 1)), JS([GoodSha256 EXCEPT ![Sha256Len] = "z"]),
     JS(GoodMd5)}

FilenameValues == {JS(Str_p_tar), JS(<<>>)}

PythonVersionValues == {JS(SourceTag), JS(Str_py3), JS(<<>>)}

SizeValues ==
    {JI(0), JI(123), JS(Str_123), JS(<<"-", "5">>), JS(Str_abc), JS(<<>>), JN}

TimeValues == {JS(Str_date), JS(Str_datetime), JS(Str_bad_month), JS(<<>>), JN}

UrlValues == {JS(Str_x), JS(<<>>), JN}

Artifact(md5, sha256, filename, python_version, size, time, url) ==
    JO([digests |-> JO([md5 |-> md5, sha256 |-> sha256]),
        filename |-> filename,
        python_version |-> python_version,
        size |-> size,
        upload_time_iso_8601 |-> time,
        url |-> url])

\* The arguments of _parse_version_metadata.
VersionMetadataInputs ==
    {Artifact(m, h, f, p, z, t, u) :
        m \in Md5Values, h \in Sha256Values, f \in FilenameValues,
        p \in PythonVersionValues, z \in SizeValues, t \in TimeValues, u \in UrlValues}

SourceArtifact(filename) ==
    Artifact(JS(GoodMd5), JS(GoodSha256), JS(filename), JS(SourceTag), JI(123),
             JS(Str_date), JS(Str_x))

ArtTar == SourceArtifact(Str_p_tar)

ArtZip == SourceArtifact(Str_p_zip)

ArtDotTar == SourceArtifact(DotTar)

ArtWheel ==
    Artifact(JS(GoodMd5), JS(GoodSha256), JS(Str_p_whl), JS(Str_py3), JI(7),
             JS(Str_date), JS(Str_x))

ArtBadMd5 ==
    Artifact(JS(Rep("a", Md5Len - 1)), JS(GoodSha256), JS(Str_p_tar), JS(SourceTag), JI(123),
             JS(Str_date), JS(Str_x))

ListArtifacts == {ArtTar, ArtZip, ArtDotTar, ArtWheel, ArtBadMd5}

Version(n) == <<Digits[n + 1], ".", "0">>

Versions == {Version(n) : n \in 1..3}

Info(license, name, package_url, project_url, release_url, version) ==
    [description |-> JN,
     description_content_type |-> JN,
     docs_url |-> JN,
     license |-> license,
     name |-> name,
     package_url |-> package_url,
     project_url |-> project_url,
     project_urls |-> JO([Homepage |-> JS(Str_x)]),
     release_url |-> release_url,
     requires_python |-> JS(<<>>),
     summary |-> JN,
     version |-> version]

DefaultInfo == Info(JS(Str_x), JS(Str_x), JS(Str_x), JS(Str_x), JS(Str_x), JS(Version(1)))

EmptyOrNot == {JS(<<>>), JS(Str_x)}

\* The six critical fields, each empty or not.
CriticalInfos ==
    {Info(l, n, pk, pj, rl, v) :
        l \in EmptyOrNot, n \in EmptyOrNot, pk \in EmptyOrNot, pj \in EmptyOrNot,
        rl \in EmptyOrNot, v \in {JS(<<>>), JS(Version(1))}}

NullableStr == {JN, JS(<<>>), JS(Str_x)}

ProjectUrls ==
    {JO([h \in {} |-> JN]), JO([Homepage |-> JS(Str_x)]), JO([Source |-> JS(Str_abc)]),
     JO([Homepage |-> JS(Str_x), Source |-> JS(Str_abc)])}

\* The fields that may be null or absent, varied.
OptionalInfos ==
    {[DefaultInfo EXCEPT !.description = d, !.docs_url = u, !.summary = m,
                         !.project_urls = p, !.requires_python = r] :
        d \in NullableStr, u \in {JN, JS(Str_x)}, m \in {JN, JS(Str_x)},
        p \in ProjectUrls, r \in {JS(<<>>), JS(Str_x)}}

SampleUrls == {<<>>, <<ArtTar>>, <<ArtWheel, ArtZip, ArtTar>>, <<ArtBadMd5, ArtTar>>, <<ArtWheel>>}

\* Payloads with `info` and `urls` only (the single-version endpoint).
PackageInfoPayloads ==
    {JO([info |-> JO(i), urls |-> JA(u)]) : i \in CriticalInfos, u \in SampleUrls}
    \cup {JO([info |-> JO(DefaultInfo), urls |-> JA(u)]) : u \in SeqsUpTo(ListArtifacts, MaxUrls)}
    \cup {JO([info |-> JO(i), urls |-> JA(<<ArtTar>>)]) : i \in OptionalInfos}

SampleLists == {<<>>, <<ArtTar>>, <<ArtWheel>>, <<ArtBadMd5>>, <<ArtZip, ArtTar>>}

HasDistinctKeys(items) ==
    \A i, j \in 1..Len(items) : items[i].k = items[j].k => i = j

\* `releases` mappings: one version with every list of artifacts up to
\* MaxArtifacts, and up to MaxVersions versions with the sample lists.
ReleasesValues ==
    {JM(<<[k |-> v, v |-> JA(a)]>>) :
        v \in {Version(1), Version(2)}, a \in SeqsUpTo(ListArtifacts, MaxArtifacts)}
    \cup {JM(items) : items \in
            {s \in SeqsUpTo({[k |-> v, v |-> JA(a)] : v \in Versions, a \in SampleLists},
                            MaxVersions) : HasDistinctKeys(s)}}

\* Payloads with `releases` (the all-versions endpoint).
PackageMetadataPayloads ==
    {JO([info |-> JO(DefaultInfo), urls |-> JA(u), releases |-> r]) :
        u \in {<<ArtTar>>, <<ArtZip>>}, r \in ReleasesValues}
    \cup {JO([info |-> JO(i), urls |-> JA(u), releases |-> JM(<<>>)]) :
            i \in CriticalInfos, u \in {<<ArtTar>>, <<ArtWheel>>}}

\* Payloads that violate the PyPI schemas.
BadPypiPayloads ==
    {JS(Str_abc), JN, JA(<<>>),
     JO([info |-> JO(DefaultInfo)]),
     JO([urls |-> JA(<<ArtTar>>)]),
     JO([info |-> JO([DefaultInfo EXCEPT !.license = JN]), urls |-> JA(<<ArtTar>>),
         releases |-> JM(<<>>)]),
     JO([info |-> JO([k \in InfoRequired \ {"license"} |-> DefaultInfo[k]]),
         urls |-> JA(<<ArtTar>>), releases |-> JM(<<>>)]),
     JO([info |-> JO(DefaultInfo), urls |-> JA(<<ArtTar>>), releases |-> JN]),
     JO([info |-> JO(DefaultInfo), urls |-> JN, releases |-> JM(<<>>)]),
     JO([info |-> JO(DefaultInfo),
         urls |-> JA(<<Artifact(JS(GoodMd5), JS(GoodSha256), JS(Str_p_tar), JS(SourceTag),
                                JS(Str_123), JS(Str_date), JS(Str_x))>>),
         releases |-> JM(<<>>)]),
     JO([info |-> JO(DefaultInfo), urls |-> JA(<<ArtTar>>),
         releases |-> JM(<<[k |-> Version(2), v |-> JA(<<JN>>)]>>)])}

Str_linux_64 == <<"l", "i", "n", "u", "x", "-", "6", "4">>

PkgMinimal ==
    JO([build |-> JS(<<"p", "y", "_", "0">>),
        build_number |-> JI(0),
        depends |-> JA(<<JS(Str_abc)>>),
        md5 |-> JS(GoodMd5),
        sha256 |-> JS(GoodSha256),
        name |-> JS(Str_x),
        size |-> JI(5598),
        version |-> JS(<<"2", "0", "1", "8", ".", "1", "2">>),
        subdir |-> JS(Str_linux_64)])

PkgFull ==
    JO([k \in PackageDataRequired
              \cup {"timestamp", "date", "track_features", "license", "license_family"} |->
          CASE k = "timestamp" -> JI(1562173890)
            [] k = "date" -> JS(Str_date)
            [] k = "track_features" -> JS(Str_abc)
            [] k = "license" -> JS(<<"B", "S", "D">>)
            [] k = "license_family" -> JN
            [] OTHER -> PkgMinimal.o[k]])

PkgNoMd5 == JO([k \in PackageDataRequired \ {"md5"} |-> PkgMinimal.o[k]])

PkgBadTimestamp == JO([k \in PackageDataRequired \cup {"timestamp"} |->
                          IF k = "timestamp" THEN JS(Str_123) ELSE PkgMinimal.o[k]])

Str_a_conda == <<"a", ".", "c", "o", "n", "d", "a">>

Str_b_conda == <<"b", ".", "c", "o", "n", "d", "a">>

RepodataInfoValues ==
    {JO([subdir |-> JS(Str_linux_64)]),
     JO([subdir |-> JS(Str_linux_64), arch |-> JS(Str_x), platform |-> JS(Str_abc)]),
     JO([arch |-> JS(Str_x)]),
     JO([subdir |-> JI(64)]),
     JS(Str_linux_64)}

RepodataPackagesValues ==
    {JM(<<>>),
     JM(<<[k |-> Str_a_conda, v |-> PkgMinimal]>>),
     JM(<<[k |-> Str_b_conda, v |-> PkgFull], [k |-> Str_a_conda, v |-> PkgMinimal]>>),
     JM(<<[k |-> Str_a_conda, v |-> PkgNoMd5]>>),
     JM(<<[k |-> Str_a_conda, v |-> PkgBadTimestamp]>>),
     JA(<<>>)}

\* Bodies offered to the repodata schema; some violate it.
RepodataPayloads ==
    {JO([info |-> i, packages |-> p, removed |-> r, repodata_version |-> v]) :
        i \in RepodataInfoValues, p \in RepodataPackagesValues,
        r \in {JA(<<>>), JA(<<JS(Str_a_conda), JS(Str_b_conda)>>), JN},
        v \in {JI(1), JS(<<"1">>)}}
    \cup {JO([h \in {} |-> JN]), JS(Str_abc),
          JO([info |-> JO([subdir |-> JS(Str_linux_64)]), packages |-> JM(<<>>),
              removed |-> JA(<<>>)])}

HeaderValues ==
    {NoHeaders, ContentType("application/json"), ContentType("text/html"),
     ContentType("application/json; charset=utf-8")}

StatusValues == {200, 201, 404, 500}

\* What a GET may be answered by, the bodies being drawn from `payloads`.
Responses(payloads) ==
    {TransportFailure, NoneReturned}
    \cup {Response(st, h, b) :
            st \in StatusValues, h \in HeaderValues,
            b \in {Unparseable, Parsed(JS(Str_abc)),
                   Parsed(JO([info |-> JO(DefaultInfo), urls |-> JA(<<ArtTar>>),
                              releases |-> JM(<<>>)]))}}
    \cup {Response(200, ContentType("application/json"), Parsed(j)) : j \in payloads}

Schemas ==
    {"PackageInfo.get_schema(True)", "PackageInfo.get_schema(False)", "_REPODATA_JSON_SCHEMA"}

MOCK_BASE_URL == "https://mock.website.com"

\* Bodies offered to make_request_and_validate under every schema.
GatewayPayloads ==
    BadPypiPayloads
    \cup {JO([info |-> JO(DefaultInfo), urls |-> JA(u)]) : u \in SampleUrls}
    \cup {JO([info |-> JO(DefaultInfo), urls |-> JA(<<ArtTar>>), releases |-> JM(items)]) :
            items \in {<<>>, <<[k |-> Version(2), v |-> JA(<<ArtWheel>>)]>>}}
    \cup {JO([info |-> i, packages |-> p, removed |-> JA(<<>>), repodata_version |-> JI(1)]) :
            i \in RepodataInfoValues, p \in RepodataPackagesValues}

Packages == {"scipy"}

Str_foobar == <<"f", "o", "o", "b", "a", "r">>

Str_baz == <<"b", "a", "z">>

Str_blah == <<"b", "l", "a", "h">>

\* Version strings: plain, with a leading v, of different lengths, with
\* letters, and some VersionOrder rejects.
VersionStrings ==
    {<<>>,
     <<"0", ".", "1", ".", "0">>,
     <<"1", ".", "0", ".", "0">>,
     <<"1", ".", "0">>,
     <<"1", ".", "0", ".", "1">>,
     <<"1", ".", "9">>,
     <<"1", ".", "1", "0">>,
     <<"2", ".", "0", ".", "0">>,
     <<"v", "0", ".", "1", ".", "0">>,
     <<"v", "1", ".", "0", ".", "0">>,
     <<"V", "1", ".", "0", ".", "0">>,
     <<"v", "2", ".", "0", ".", "0">>,
     <<"1", ".", "0", "a">>,
     <<"1", ".", "0", "b", "1">>,
     <<"1", ".", ".", "0">>,
     <<"1", ".", "0", "$">>}

\* The build numbers of the records compared: 0..MaxBuildNumber.
BuildNumbers == 0..MaxBuildNumber

\* A PackageData as the tests build it: name, version and build number vary.
PackageDataOf(name, version, build_number) ==
    _serialize_package_data(
        JO([PkgMinimal.o EXCEPT !.name = JS(name), !.version = JS(version),
                                !.build_number = JI(build_number)]))

PackageDataValues ==
    {PackageDataOf(n, v, b) : n \in {Str_foobar, Str_baz}, v \in VersionStrings, b \in BuildNumbers}

\* What a PackageData is compared with that is no PackageData.
OtherValues == {JN, JI(42), JS(Str_blah)}

\* Strings for the hash validators: runs of one hex digit one shorter than,
\* as long as and one longer than each hash, the empty string, and the same
\* with one character outside the hex digits at either end.
HashLengths ==
    {0, 1} \cup UNION {{n - 1, n, n + 1} : n \in {Md5Len, Sha1Len, Sha256Len}}

HexRuns == {Rep(c, n) : c \in {"0", "9", "a", "f", "A", "F"}, n \in HashLengths}

NonHexChars == {"g", "G", "z", ":", " ", "-", "x"}

HashStrings ==
    HexRuns \cup UNION {{[s EXCEPT ![i] = c] : i \in {1, 7, Len(s)} \cap DOMAIN s,
                                                c \in NonHexChars} : s \in HexRuns}

\* Strings for cast_hex_str_to_int: everything of up to MaxHexLen characters
\* over hex digits of both cases and the characters an integer literal may
\* carry besides its digits.
HexLiteralChars == {"4", "2", "a", "F", "0", "x", "_", "-", "+", " ", "g"}

HexLiterals == SeqsUpTo(HexLiteralChars, MaxHexLen)

(***************************************************************************)
(* The calls.  A state is one call of one operation: invoked with its      *)
(* arguments (pc = "called"), then ended with its outcome (pc = "done").   *)
(***************************************************************************)
Calls ==
    [op : {"make_request_and_validate"},
     arg : [endpoint : {<<MOCK_BASE_URL>>}, schema : Schemas]]
    \cup [op : {"fetch_repodata"},
          arg : [channel : Channel \cup {"fake channel"}, arch : Architecture]]
    \cup [op : {"fetch_package_metadata"}, arg : [package : Packages]]
    \cup [op : {"fetch_package_version_metadata"},
          arg : [package : Packages, version : {"1.0"}]]
    \cup [op : {"_parse_version_metadata"}, arg : [data : VersionMetadataInputs]]
    \cup [op : {"_parse_package_info"}, arg : [data : PackageInfoPayloads]]
    \cup [op : {"PackageData.__lt__", "PackageData.__gt__", "PackageData.__eq__"},
          arg : [lhs : PackageDataValues, rhs : PackageDataValues \cup OtherValues]]
    \cup [op : {"is_valid_md5", "is_valid_sha1", "is_valid_sha256"}, arg : [s : HashStrings]]
    \cup [op : {"cast_hex_str_to_int"}, arg : [s : HexLiterals]]

\* No operation of the request, projection and comparison functions is invoked.
CallIdle ==
    /\ pc = "idle" /\ op = "none" /\ arg = <<>>
    /\ resp = NoResponse /\ ret = NoOutcome /\ gets = <<>> /\ checks = <<>>

\* The statics of ConfigData as the class body leaves them: an empty table,
\* Path() and a free lock; no thread is in __init__.
Unlocked == 0

Threads == 1..MaxThreads

EmptyTbl == [k \in {} |-> <<>>]

CurrentDir == "."

NoLookup == [op |-> "none"]

IdleThread == [pc |-> "idle", file_path |-> CurrentDir, raw_tbl |-> EmptyTbl]

ConfigInit ==
    /\ _config_tbl = EmptyTbl
    /\ _file_path = CurrentDir
    /\ _mutex = Unlocked
    /\ threads = [t \in Threads |-> IdleThread]
    /\ opened = <<>>
    /\ constructed = <<>>
    /\ lookup = NoLookup

\* No chain of commands is running.
ShellIdle == cwd = <<>> /\ completed_procs = <<>> /\ ran = <<>>

\* get_schema has not been called.
SchemaInit == required_lists = <<>> /\ returned = <<>>

\* The static client lists as the class bodies leave them.
ClientsInit == _gh = <<>> /\ _jira = <<>> /\ built = [github |-> <<>>, jira |-> <<>>]

Init ==
    /\ pc = "called"
    /\ \E c \in Calls : op = c.op /\ arg = c.arg
    /\ resp = NoResponse
    /\ ret = NoOutcome
    /\ gets = <<>>
    /\ checks = <<>>
    /\ ConfigInit /\ ShellIdle /\ SchemaInit /\ ClientsInit

\* A call that issues a GET: the environment answers with r.
EndFetch(r, result) ==
    /\ pc' = "done"
    /\ resp' = IF result.gets = <<>> THEN resp ELSE r
    /\ ret' = result.ret
    /\ gets' = gets \o result.gets
    /\ checks' = result.steps
    /\ UNCHANGED <<op, arg, configVars, shellVars, schemaVars, clientVars>>

\* A pure projection.
EndPure(outcome) ==
    /\ pc' = "done"
    /\ ret' = outcome
    /\ UNCHANGED <<op, arg, resp, gets, checks, configVars, shellVars, schemaVars, clientVars>>

MakeRequestAndValidate ==
    /\ pc = "called" /\ op = "make_request_and_validate"
    /\ \E r \in Responses(GatewayPayloads) :
        \E result \in {make_request_and_validate(arg.endpoint, arg.schema, r)} :
            EndFetch(r, result)

FetchRepodata ==
    /\ pc = "called" /\ op = "fetch_repodata"
    /\ \E r \in Responses(RepodataPayloads) :
        \E result \in {fetch_repodata(arg.channel, arg.arch, r)} : EndFetch(r, result)

FetchPackageMetadata ==
    /\ pc = "called" /\ op = "fetch_package_metadata"
    /\ \E r \in Responses(PackageMetadataPayloads \cup BadPypiPayloads) :
        \E result \in {fetch_package_metadata(arg.package, r)} : EndFetch(r, result)

FetchPackageVersionMetadata ==
    /\ pc = "called" /\ op = "fetch_package_version_metadata"
    /\ \E r \in Responses(PackageInfoPayloads \cup BadPypiPayloads) :
        \E result \in {fetch_package_version_metadata(arg.package, arg.version, r)} :
            EndFetch(r, result)

ParseVersionMetadata ==
    /\ pc = "called" /\ op = "_parse_version_metadata"
    /\ \E outcome \in {_parse_version_metadata(arg.data)} : EndPure(outcome)

ParsePackageInfo ==
    /\ pc = "called" /\ op = "_parse_package_info"
    /\ \E outcome \in {_parse_package_info(arg.data)} : EndPure(outcome)

\* `lhs < rhs` is evaluated.
PackageDataLt ==
    /\ pc = "called" /\ op = "PackageData.__lt__"
    /\ \E outcome \in {PackageData_lt(arg.lhs, arg.rhs)} : EndPure(outcome)

\* `lhs > rhs` is evaluated.
PackageDataGt ==
    /\ pc = "called" /\ op = "PackageData.__gt__"
    /\ \E outcome \in {PackageData_gt(arg.lhs, arg.rhs)} : EndPure(outcome)

\* `lhs == rhs` is evaluated.
PackageDataEq ==
    /\ pc = "called" /\ op = "PackageData.__eq__"
    /\ \E outcome \in {PackageData_eq(arg.lhs, arg.rhs)} : EndPure(outcome)

\* is_valid_md5(s) is evaluated.
IsValidMd5 ==
    /\ pc = "called" /\ op = "is_valid_md5"
    /\ EndPure(Return(is_valid_md5(arg.s)))

\* is_valid_sha1(s) is evaluated.
IsValidSha1 ==
    /\ pc = "called" /\ op = "is_valid_sha1"
    /\ EndPure(Return(is_valid_sha1(arg.s)))

\* is_valid_sha256(s) is evaluated.
IsValidSha256 ==
    /\ pc = "called" /\ op = "is_valid_sha256"
    /\ EndPure(Return(is_valid_sha256(arg.s)))

\* cast_hex_str_to_int(s) is evaluated.
CastHexStrToInt ==
    /\ pc = "called" /\ op = "cast_hex_str_to_int"
    /\ \E outcome \in {cast_hex_str_to_int(arg.s)} : EndPure(outcome)

Next ==
    \/ MakeRequestAndValidate
    \/ FetchRepodata
    \/ FetchPackageMetadata
    \/ FetchPackageVersionMetadata
    \/ ParseVersionMetadata
    \/ ParsePackageInfo
    \/ PackageDataLt
    \/ PackageDataGt
    \/ PackageDataEq
    \/ IsValidMd5
    \/ IsValidSha1
    \/ IsValidSha256
    \/ CastHexStrToInt

Spec == Init /\ [][Next]_vars

(***************************************************************************)
(* storage/config_data.py                                                  *)
(***************************************************************************)
Key_token == <<"t", "o", "k", "e", "n">>

Key_github == <<"g", "i", "t", "h", "u", "b">>

Key_jira == <<"j", "i", "r", "a">>

Key_user_info == <<"u", "s", "e", "r", "_", "i", "n", "f", "o">>

Key_email == <<"e", "m", "a", "i", "l">>

Key_local_path == <<"l", "o", "c", "a", "l", "_", "p", "a", "t", "h">>

Key_aggregate == <<"a", "g", "g", "r", "e", "g", "a", "t", "e">>

\* f"{top_key}.{inner_key}"
KeyPath(top_key, inner_key) == top_key \o <<".">> \o inner_key

\* The files of the file system: what yaml.safe_load reads from each path that
\* has a file.  A table is a mapping of mappings of strings.
FileA ==
    (Key_token :> ((Key_github :> "gh-a") @@ (Key_jira :> "jira-a")))
    @@ (Key_user_info :> (Key_email :> "a@anaconda.com"))
    @@ (Key_local_path :> (Key_aggregate :> "/a/aggregate"))

FileB ==
    (Key_token :> (Key_github :> "gh-b"))
    @@ (Key_local_path :> (Key_aggregate :> "/b/aggregate"))

FileInvalid == (Key_token :> (Key_github :> "gh-c"))

Files == [a |-> FileA, b |-> FileB, invalid |-> FileInvalid]

FilePaths == {"a", "b", "invalid", "/bad/path"}

FileExists(path) == path \in DOMAIN Files

\* schema_validate(raw_tbl, CONFIG_FILE_SCHEMA)
CONFIG_FILE_SCHEMA(raw_tbl) ==
    /\ Key_token \in DOMAIN raw_tbl
    /\ Key_local_path \in DOMAIN raw_tbl
    /\ Key_github \in DOMAIN raw_tbl[Key_token]
    /\ Key_aggregate \in DOMAIN raw_tbl[Key_local_path]

\* The key-paths of a table and the value at each.
KeyPathsOf(raw_tbl) ==
    UNION {{KeyPath(top_key, inner_key) : inner_key \in DOMAIN raw_tbl[top_key]} :
              top_key \in DOMAIN raw_tbl}

ValueAt(raw_tbl, key) ==
    Let(CHOOSE p \in {<<t, i>> : t \in DOMAIN raw_tbl,
                                 i \in UNION {DOMAIN raw_tbl[k] : k \in DOMAIN raw_tbl}} :
            p[2] \in DOMAIN raw_tbl[p[1]] /\ KeyPath(p[1], p[2]) = key,
        LAMBDA p : raw_tbl[p[1]][p[2]])

\* The loop of lines 105-107: every key-path of raw_tbl is assigned in the
\* table, which keeps whatever else it held.
InitializeLookupTable(tbl, raw_tbl) ==
    [key \in DOMAIN tbl \cup KeyPathsOf(raw_tbl) |->
        IF key \in KeyPathsOf(raw_tbl) THEN ValueAt(raw_tbl, key) ELSE tbl[key]]

\* A lock that anyone may take at any time.
CanAcquire_always(mutex) == TRUE

\* Lock.acquire() returns when the lock is free.
CanAcquire(mutex) == mutex = Unlocked

\* The constructions begun so far.
Begun == Len(constructed) + Cardinality({t \in Threads : threads[t].pc # "idle"})

\* A construction of thread t ends with `outcome`: the `with` block releases
\* the lock, on a return and on an exception alike.
EndConstruction(t, read, outcome, tbl) ==
    /\ _mutex' = Unlocked
    /\ threads' = [threads EXCEPT ![t] = IdleThread]
    /\ constructed' = Append(constructed,
            [thread |-> t, file_path |-> threads[t].file_path, read |-> read,
             outcome |-> outcome, tbl |-> tbl])

\* Thread t calls ConfigData(file_path).
Construct(t, file_path) ==
    /\ threads[t].pc = "idle" /\ Begun < MaxConstructions
    /\ threads' = [threads EXCEPT ![t] = [IdleThread EXCEPT !.pc = "acquire",
                                                             !.file_path = file_path]]
    /\ UNCHANGED <<callVars, _config_tbl, _file_path, _mutex, opened, constructed, lookup,
                   shellVars, schemaVars, clientVars>>

\* with ConfigData._mutex:
Acquire(t) ==
    /\ threads[t].pc = "acquire" /\ CanAcquire(_mutex)
    /\ _mutex' = t
    /\ threads' = [threads EXCEPT ![t].pc = "compare"]
    /\ UNCHANGED <<callVars, _config_tbl, _file_path, opened, constructed, lookup,
                   shellVars, schemaVars, clientVars>>

\* if ConfigData._file_path != file_path: ConfigData._file_path = Path(file_path)
Compare(t) ==
    /\ threads[t].pc = "compare"
    /\ IF _file_path = threads[t].file_path
       THEN /\ EndConstruction(t, FALSE, Return("None"), _config_tbl)
            /\ UNCHANGED <<_config_tbl, _file_path>>
       ELSE /\ _file_path' = threads[t].file_path
            /\ threads' = [threads EXCEPT ![t].pc = "open"]
            /\ UNCHANGED <<_config_tbl, _mutex, constructed>>
    /\ UNCHANGED <<callVars, opened, lookup, shellVars, schemaVars, clientVars>>

\* with open(ConfigData._file_path, ...) as f: raw_tbl = yaml.safe_load(f)
Open(t) ==
    /\ threads[t].pc = "open"
    /\ opened' = Append(opened, _file_path)
    /\ IF FileExists(_file_path)
       THEN /\ threads' = [threads EXCEPT ![t].pc = "validate", ![t].raw_tbl = Files[_file_path]]
            /\ UNCHANGED <<_mutex, constructed>>
       ELSE EndConstruction(t, TRUE, Raise("FileNotFoundError", "", _file_path), _config_tbl)
    /\ UNCHANGED <<callVars, _config_tbl, _file_path, lookup, shellVars, schemaVars, clientVars>>

\* schema_validate(raw_tbl, CONFIG_FILE_SCHEMA)
Validate(t) ==
    /\ threads[t].pc = "validate"
    /\ IF CONFIG_FILE_SCHEMA(threads[t].raw_tbl)
       THEN /\ threads' = [threads EXCEPT ![t].pc = "initialize"]
            /\ UNCHANGED <<_mutex, constructed>>
       ELSE EndConstruction(t, TRUE, Raise("ValidationError", "", ""), _config_tbl)
    /\ UNCHANGED <<callVars, _config_tbl, _file_path, opened, lookup,
                   shellVars, schemaVars, clientVars>>

\* The table is filled and __init__ returns.
Initialize(t) ==
    /\ threads[t].pc = "initialize"
    /\ \E tbl \in {InitializeLookupTable(_config_tbl, threads[t].raw_tbl)} :
        /\ _config_tbl' = tbl
        /\ EndConstruction(t, TRUE, Return("None"), tbl)
    /\ UNCHANGED <<callVars, _file_path, opened, lookup, shellVars, schemaVars, clientVars>>

\* Some construction has returned, so an instance exists.
HasInstance == \E i \in 1..Len(constructed) : constructed[i].outcome.kind = "return"

\* The key-paths asked for.
LookupKeys ==
    {KeyPath(Key_token, Key_github), KeyPath(Key_token, Key_jira),
     KeyPath(Key_github, Key_token)}

\* `key in data`
ConfigContains(t, key) ==
    /\ threads[t].pc = "idle" /\ HasInstance /\ CanAcquire(_mutex)
    /\ lookup' = [op |-> "__contains__", key |-> key, after |-> Len(constructed),
                  outcome |-> Return(key \in DOMAIN _config_tbl)]
    /\ UNCHANGED <<callVars, _config_tbl, _file_path, _mutex, threads, opened, constructed,
                   shellVars, schemaVars, clientVars>>

\* `data[key]`
ConfigGetItem(t, key) ==
    /\ threads[t].pc = "idle" /\ HasInstance /\ CanAcquire(_mutex)
    /\ lookup' = [op |-> "__getitem__", key |-> key, after |-> Len(constructed),
                  outcome |-> IF key \in DOMAIN _config_tbl THEN Return(_config_tbl[key])
                              ELSE Raise("KeyError", "", key)]
    /\ UNCHANGED <<callVars, _config_tbl, _file_path, _mutex, threads, opened, constructed,
                   shellVars, schemaVars, clientVars>>

InitConfig == CallIdle /\ ConfigInit /\ ShellIdle /\ SchemaInit /\ ClientsInit

NextConfig ==
    \/ \E t \in Threads, file_path \in FilePaths : Construct(t, file_path)
    \/ \E t \in Threads : Acquire(t)
    \/ \E t \in Threads : Compare(t)
    \/ \E t \in Threads : Open(t)
    \/ \E t \in Threads : Validate(t)
    \/ \E t \in Threads : Initialize(t)
    \/ \E t \in Threads, key \in LookupKeys : ConfigContains(t, key)
    \/ \E t \in Threads, key \in LookupKeys : ConfigGetItem(t, key)

SpecConfig == InitConfig /\ [][NextConfig]_vars

(***************************************************************************)
(* cli/subshell.py                                                         *)
(***************************************************************************)
Cmd_pwd == <<"p", "w", "d">>

Cmd_false == <<"f", "a", "l", "s", "e">>

Cmd_cd == <<"c", "d">>

Cmd_cd_usr_bin == <<"c", "d", " ", "/", "u", "s", "r", "/", "b", "i", "n">>

Cmd_cd_missing == <<"c", "d", " ", "/", "m", "i", "s", "s", "i", "n", "g">>

Cmd_cd_nowhere == <<"c", "d", " ">>

Dir_tests == <<"t", "e", "s", "t", "s">>

Dir_usr_bin == <<"/", "u", "s", "r", "/", "b", "i", "n">>

Commands == {Cmd_pwd, Cmd_false, Cmd_cd, Cmd_cd_usr_bin, Cmd_cd_missing, Cmd_cd_nowhere}

\* The directories of the file system.
Directories == {Dir_tests, Dir_usr_bin}

\* subprocess.CompletedProcess(args, returncode, stdout, stderr)
CompletedProcess(args, returncode, stdout, stderr) ==
    [args |-> args, returncode |-> returncode, stdout |-> stdout, stderr |-> stderr]

\* run_shell(cmd, capture_output, cwd): what subprocess.run(cmd, cwd=cwd,
\* shell=True, check=False) can do.  The child changes into cwd before it
\* runs the shell, so a cwd that is no directory (the empty string, the
\* default, is none) raises FileNotFoundError; otherwise the command runs and
\* ends with a return code of its own.
run_shell(cmd, dir) ==
    IF dir \notin Directories
    THEN {Raise("FileNotFoundError", "No such file or directory", dir)}
    ELSE {Return(CompletedProcess(cmd, 0, "stdout", "")),
          Return(CompletedProcess(cmd, 1, "", "stderr"))}

\* A test for `cd` that leaves out the space.
IsCdCommand_without_space(cmd) == StartsAt(cmd, <<"c", "d">>, 1)

\* cmd.startswith("cd ")
IsCdCommand(cmd) == StartsAt(cmd, <<"c", "d", " ">>, 1)

\* cmd[len("cd ") :]
CdTarget(cmd) == SubSeq(cmd, 4, Len(cmd))

\* The command the loop is at: one result was appended for each one before.
CmdIndex == Len(completed_procs) + 1

ChainRunning == pc = "called" /\ op = "run_shell_chain"

\* The loop meets a `cd`: the directory is noted and a result made up.
ChainCd ==
    /\ ChainRunning /\ CmdIndex <= Len(arg.cmds)
    /\ IsCdCommand(arg.cmds[CmdIndex])
    /\ cwd' = CdTarget(arg.cmds[CmdIndex])
    /\ completed_procs' =
           Append(completed_procs, CompletedProcess(arg.cmds[CmdIndex], 0, "", ""))
    /\ UNCHANGED <<callVars, ran, configVars, schemaVars, clientVars>>

\* The loop meets any other command and runs it in the directory noted; with
\* is_fatal_error a return code other than 0 ends the loop and the call.
ChainRunShell ==
    /\ ChainRunning /\ CmdIndex <= Len(arg.cmds)
    /\ ~IsCdCommand(arg.cmds[CmdIndex])
    /\ ran' = Append(ran, [index |-> CmdIndex, cmd |-> arg.cmds[CmdIndex], cwd |-> cwd])
    /\ \E proc \in run_shell(arg.cmds[CmdIndex], cwd) :
        IF proc.kind = "raise"
        THEN /\ pc' = "done" /\ ret' = proc
             /\ UNCHANGED completed_procs
        ELSE /\ completed_procs' = Append(completed_procs, proc.value)
             /\ IF arg.is_fatal_error /\ proc.value.returncode # 0
                THEN pc' = "done" /\ ret' = Return(completed_procs')
                ELSE UNCHANGED <<pc, ret>>
    /\ UNCHANGED <<op, arg, resp, gets, checks, cwd, configVars, schemaVars, clientVars>>

\* The list is exhausted: return completed_procs.
ChainReturn ==
    /\ ChainRunning /\ CmdIndex > Len(arg.cmds)
    /\ pc' = "done" /\ ret' = Return(completed_procs)
    /\ UNCHANGED <<op, arg, resp, gets, checks, shellVars, configVars, schemaVars, clientVars>>

ChainCalls ==
    [cmds : SeqsUpTo(Commands, MaxCmds), cwd : {<<>>, Dir_tests}, is_fatal_error : BOOLEAN]

InitShell ==
    /\ pc = "called" /\ op = "run_shell_chain"
    /\ arg \in ChainCalls
    /\ resp = NoResponse /\ ret = NoOutcome /\ gets = <<>> /\ checks = <<>>
    /\ cwd = arg.cwd /\ completed_procs = <<>> /\ ran = <<>>
    /\ ConfigInit /\ SchemaInit /\ ClientsInit

NextShell == ChainCd \/ ChainRunShell \/ ChainReturn

SpecShell == InitShell /\ [][NextShell]_vars

(***************************************************************************)
(* api/pypi_api.py: PackageInfo.get_schema.  Only the top-level `required`  *)
(* list of the schema is mutated, so a schema is modelled by that list: a   *)
(* list object has an identity, its place in required_lists.                *)
(***************************************************************************)
\* "required": ["info", "urls"]
BaseRequired == <<"info", "urls">>

\* A literal that is evaluated once and shared by every call.
NewList_shared(lists) == 1

\* The dict and list displays of `base` are evaluated on every call: each
\* call gets a list object of its own.
NewList(lists) == Len(lists) + 1

\* The list object `ref` holds `value`, unless it existed before.
Allocated(lists, ref, value) == IF ref > Len(lists) THEN Append(lists, value) ELSE lists

\* base["required"].append("releases") when requires_releases holds.
get_schema(lists, requires_releases) ==
    Let(NewList(lists), LAMBDA ref :
        Let(Allocated(lists, ref, BaseRequired), LAMBDA base :
            [ref |-> ref,
             lists |-> IF requires_releases
                       THEN [base EXCEPT ![ref] = Append(@, "releases")]
                       ELSE base]))

\* PackageInfo.get_schema(requires_releases) is called and its schema kept.
GetSchema(requires_releases) ==
    /\ Len(returned) < MaxSchemaCalls
    /\ \E got \in {get_schema(required_lists, requires_releases)} :
        /\ required_lists' = got.lists
        /\ returned' = Append(returned, [requires_releases |-> requires_releases,
                                         ref |-> got.ref])
    /\ UNCHANGED <<callVars, configVars, shellVars, clientVars>>

InitSchema == CallIdle /\ ConfigInit /\ ShellIdle /\ SchemaInit /\ ClientsInit

NextSchema == \E requires_releases \in BOOLEAN : GetSchema(requires_releases)

SpecSchema == InitSchema /\ [][NextSchema]_vars

(***************************************************************************)
(* api/github_api.py, api/jira_api.py.  PyGithub, jira and ConfigData() are *)
(* the environment: each call of theirs either gives its result or raises.  *)
(***************************************************************************)
GithubApiException == "github_api.ApiException"

JiraApiException == "jira_api.ApiException"

ANACONDA_RECIPE_BASE == "AnacondaRecipes"

\* What the environment does when a client is constructed: ConfigData() loads
\* the configuration or raises, the key-paths asked for are in it or not, and
\* the client library accepts the credentials or raises.
ConfigLoads == {"loaded", "no file", "no key"}

ClientAnswers == {"client", "raises"}

\* GitHubApi(): the body of __init__ when the list is empty.  Everything is
\* inside the try, so whatever raises becomes ApiException.
GitHubApi_init(config, client) ==
    IF config # "loaded" \/ client = "raises"
    THEN Raise(GithubApiException, "Failed to auth or connect to GitHub", "")
    ELSE Return("Github")

\* JiraApi(): the body of __init__ when the list is empty.  ConfigData() is
\* called before the try; the look-ups and JIRA(...) are inside it.
JiraApi_init(config, client) ==
    IF config = "no file" THEN Raise("FileNotFoundError", "", "")
    ELSE IF config = "no key" \/ client = "raises"
    THEN Raise(JiraApiException, "Failed to auth or connect to JIRA", "")
    ELSE Return("JIRA")

\* The underlying client's constructor is reached when the configuration gave
\* its values.
ConstructorReached(config) == config = "loaded"

\* A call of the client layer ends: it is the last call, with its outcome.
EndApiCall(name, input, outcome) ==
    /\ op' = name /\ arg' = input /\ ret' = outcome
    /\ UNCHANGED <<pc, resp, gets, checks, configVars, shellVars, schemaVars>>

\* A guard that looks for nothing in the list.
ListIsEmpty_always(list) == TRUE

\* len(GitHubApi._gh) == 0
ListIsEmpty(list) == Len(list) = 0

\* GitHubApi()
ConstructGitHubApi(config, client) ==
    /\ Len(built.github) < MaxApiCalls
    /\ IF ListIsEmpty(_gh)
       THEN \E outcome \in {GitHubApi_init(config, client)} :
            /\ _gh' = IF outcome.kind = "return" THEN Append(_gh, outcome.value) ELSE _gh
            /\ built' = IF ConstructorReached(config)
                         THEN [built EXCEPT !.github = Append(@, client)] ELSE built
            /\ EndApiCall("GitHubApi", [config |-> config, client |-> client],
                          IF outcome.kind = "return" THEN Return("None") ELSE outcome)
       ELSE /\ UNCHANGED <<_gh, built>>
            /\ EndApiCall("GitHubApi", [config |-> config, client |-> client], Return("None"))
    /\ UNCHANGED _jira

\* JiraApi()
ConstructJiraApi(config, client) ==
    /\ Len(built.jira) < MaxApiCalls
    /\ IF ListIsEmpty(_jira)
       THEN \E outcome \in {JiraApi_init(config, client)} :
            /\ _jira' = IF outcome.kind = "return" THEN Append(_jira, outcome.value) ELSE _jira
            /\ built' = IF ConstructorReached(config)
                         THEN [built EXCEPT !.jira = Append(@, client)] ELSE built
            /\ EndApiCall("JiraApi", [config |-> config, client |-> client],
                          IF outcome.kind = "return" THEN Return("None") ELSE outcome)
       ELSE /\ UNCHANGED <<_jira, built>>
            /\ EndApiCall("JiraApi", [config |-> config, client |-> client], Return("None"))
    /\ UNCHANGED _gh

\* What aggregate.get_contents(f"/{feedstock_name}") can do: raise, return a
\* list, or return a file whose sha is a string or None.
GoodSha1 == Rep("5", Sha1Len)

ShaValues ==
    {JN, JS(GoodSha1), JS(Rep("F", Sha1Len)), JS(Rep("5", Sha1Len - 1)),
     JS(Rep("5", Sha1Len + 1)), JS([GoodSha1 EXCEPT ![Sha1Len] = "g"]), JS(<<>>),
     JS(Rep("a", Md5Len))}

ContentsAnswers ==
    {[kind |-> "raises"], [kind |-> "list"]} \cup {[kind |-> "file", sha |-> s] : s \in ShaValues}

RepoAnswers == {"repo", "raises"}

\* A reading of the SHA that keeps whatever the submodule says.
ShaOf_unchecked(contents) ==
    IF contents.kind # "file" THEN JN ELSE contents.sha

\* Lines 94-113: sha stays None when get_contents raises or returns a list,
\* and is reset to None when it is not a valid SHA-1.
ShaOf(contents) ==
    IF contents.kind # "file" THEN JN
    ELSE IF contents.sha # JN /\ ~is_valid_sha1(contents.sha.s) THEN JN
    ELSE contents.sha

\* fetch_feedstock(package), the environment answering the access of
\* `aggregate`, get_contents and the access of the feedstock.
fetch_feedstock(package, aggregate, contents, feedstock) ==
    IF aggregate = "raises" THEN Raise(GithubApiException, "Failed to access aggregate", "")
    ELSE Let(ShaOf(contents), LAMBDA sha :
        IF feedstock = "raises"
        THEN Raise(GithubApiException, "Failed to access feedstock from aggregate", package)
        ELSE Return([repo |-> <<ANACONDA_RECIPE_BASE, package, "-feedstock">>, sha |-> sha]))

\* GitHubApi().fetch_feedstock(package), on an instance.
FetchFeedstock(package, aggregate, contents, feedstock) ==
    /\ ~ListIsEmpty(_gh)
    /\ \E outcome \in {fetch_feedstock(package, aggregate, contents, feedstock)} :
        EndApiCall("fetch_feedstock",
                   [package |-> package, aggregate |-> aggregate, contents |-> contents,
                    feedstock |-> feedstock], outcome)
    /\ UNCHANGED clientVars

InitClients == CallIdle /\ ConfigInit /\ ShellIdle /\ SchemaInit /\ ClientsInit

NextClients ==
    \/ \E config \in ConfigLoads, client \in ClientAnswers : ConstructGitHubApi(config, client)
    \/ \E config \in ConfigLoads, client \in ClientAnswers : ConstructJiraApi(config, client)
    \/ \E package \in Packages, aggregate \in RepoAnswers, contents \in ContentsAnswers,
          feedstock \in RepoAnswers : FetchFeedstock(package, aggregate, contents, feedstock)

SpecClients == InitClients /\ [][NextClients]_vars

(***************************************************************************)
(* Properties.                                                             *)
(***************************************************************************)
\* The call of operation o has ended.
Done(o) == pc = "done" /\ op = o

\* r is a response the gateway's contract accepts for `schema`.
Acceptable(r, schema) ==
    /\ r.transport = "ok"
    /\ r.status = 200
    /\ "content-type" \in DOMAIN r.headers
    /\ r.headers["content-type"] = "application/json"
    /\ r.body.parse
    /\ schema_validate(r.body.json, schema)

\* r is a response that fails one of the five conditions of the contract.
Unacceptable(r, schema) ==
    /\ r.transport = "ok"
    /\ \/ r.status # 200
       \/ "content-type" \notin DOMAIN r.headers
       \/ r.headers["content-type"] # "application/json"
       \/ ~r.body.parse
       \/ ~schema_validate(r.body.json, schema)

RaisedAs(exc) == ret.kind = "raise" /\ ret.exc = exc

RaisedWith(exc, msg) == RaisedAs(exc) /\ ret.msg = msg

\* C1: make_request_and_validate returns the parsed JSON body, unchanged,
\* when the server answers 200 with content-type exactly application/json
\* and a body that parses and conforms to the schema.
C1_ReturnsValidatedBody ==
    (Done("make_request_and_validate") /\ Acceptable(resp, arg.schema))
        => (ret.kind = "return" /\ ret.value = resp.body.json)

C1_Witness ==
    /\ Done("make_request_and_validate")
    /\ arg.schema = "_REPODATA_JSON_SCHEMA"
    /\ Acceptable(resp, arg.schema)
    /\ ret.kind = "return"
    /\ ret.value = resp.body.json

\* C2: make_request_and_validate raises BaseApiException and returns no
\* payload when the status is not 200, the content-type header is missing
\* or is not application/json, the body does not parse, or the parsed body
\* violates the schema.
C2_RaisesOnAnyViolation ==
    (Done("make_request_and_validate") /\ Unacceptable(resp, arg.schema))
        => RaisedAs("BaseApiException")

C2_Witness ==
    /\ Done("make_request_and_validate")
    /\ resp.transport = "ok"
    /\ resp.status = 200
    /\ resp.headers = ContentType("application/json")
    /\ resp.body.parse
    /\ ~schema_validate(resp.body.json, arg.schema)
    /\ RaisedWith("BaseApiException", "Returned JSON does not match minimum schema.")

FetchOperations ==
    {"fetch_repodata", "fetch_package_metadata", "fetch_package_version_metadata"}

\* C3: there are no retries.  A call of make_request_and_validate issues
\* exactly one GET, a call of a fetch operation at most one, and a call that
\* failed has issued no second one.
C3_NoRetries ==
    /\ pc = "called" => gets = <<>>
    /\ Done("make_request_and_validate") => Len(gets) = 1 /\ gets[1] = arg.endpoint
    /\ (pc = "done" /\ op \in FetchOperations) => Len(gets) <= 1
    /\ (pc = "done" /\ ret.kind = "raise") => Len(gets) <= 1

C3_Witness ==
    /\ Done("fetch_package_metadata")
    /\ resp.transport = "ok"
    /\ resp.status = 500
    /\ ret.kind = "raise"
    /\ Len(gets) = 1

\* C4: fetch_repodata with a channel that is not supported, or an
\* architecture the channel does not support, raises ApiException before
\* any GET is issued.
C4_UnsupportedTargetRaisesBeforeRequest ==
    (Done("fetch_repodata")
        /\ (arg.channel \notin Channel \/ arg.arch \notin _SUPPORTED_CHANNEL_ARCH[arg.channel]))
        => (RaisedAs(RepodataApiException) /\ gets = <<>> /\ resp = NoResponse)

C4_Witness ==
    /\ Done("fetch_repodata")
    /\ arg.channel = "msys2"
    /\ arg.arch = "osx-arm64"
    /\ RaisedWith(RepodataApiException, "Requested architecture is not supported by this channel")
    /\ gets = <<>>

\* Whether sub occurs in s.
Contains(s, sub) == \E i \in 1..(Len(s) + 1) : StartsAt(s, sub, i)

\* The "source"-tagged artifacts of a list, in listed order.
SourcesOf(artifacts) == SelectSeq(artifacts, IsSource)

\* The first element of a non-empty sequence that satisfies P.
First(seq, P(_)) == seq[CHOOSE i \in 1..Len(seq) : P(seq[i]) /\ \A j \in 1..(i - 1) : ~P(seq[j])]

IsTarball(artifact) == Contains(artifact.o.filename.s, DotTar)

\* The artifact the tarball preference names: the first whose filename
\* contains ".tar", the first of all when none does.
PreferredSource(sources) ==
    IF \E i \in 1..Len(sources) : IsTarball(sources[i])
    THEN First(sources, IsTarball)
    ELSE sources[1]

\* The payload of the response was aggregated into a PackageMetadata.
Aggregated == Done("fetch_package_metadata") /\ ret.kind = "return"

\* C5: fetch_package_metadata, for a version with more than one source
\* artifact, selects the first whose filename contains ".tar", and the first
\* source artifact only if none contains ".tar".
C5_PrefersTarball ==
    Aggregated =>
        \A i \in 1..Len(resp.body.json.o.releases.items) :
            LET item == resp.body.json.o.releases.items[i]
                sources == SourcesOf(item.v.a)
            IN  Len(sources) > 1 =>
                    ret.value.releases[item.k].filename = PreferredSource(sources).o.filename.s

\* The `urls` of the payload given to _parse_package_info.
UrlsOfCall == arg.data.o.urls.a

\* C6 as stated: _parse_package_info fails with ApiException unless `urls`
\* has exactly one "source" entry.
C6_ExactlyOneSourceRequired ==
    (Done("_parse_package_info") /\ Len(SourcesOf(UrlsOfCall)) # 1)
        => RaisedAs(PypiApiException)

\* C6: _parse_package_info fails with ApiException 'Source artifacts are not
\* provided!' when `urls` has no "source" entry; a PackageInfo it returns
\* carries the first "source" entry of `urls`, however many there are.
C6_FirstSourceEntryIsProjected ==
    Done("_parse_package_info") =>
        /\ Len(SourcesOf(UrlsOfCall)) = 0
            => RaisedWith(PypiApiException, "Source artifacts are not provided!")
        /\ ret.kind = "return" =>
            /\ Len(SourcesOf(UrlsOfCall)) >= 1
            /\ ret.value.source_metadata.filename = SourcesOf(UrlsOfCall)[1].o.filename.s
            /\ ret.value.source_metadata.md5 = SourcesOf(UrlsOfCall)[1].o.digests.o.md5.s
        /\ RaisedWith(PypiApiException, "Source artifacts are not provided!")
            => Len(SourcesOf(UrlsOfCall)) = 0

C6_Witness ==
    /\ Done("_parse_package_info")
    /\ Len(SourcesOf(UrlsOfCall)) = 2
    /\ SourcesOf(UrlsOfCall)[1].o.filename.s # SourcesOf(UrlsOfCall)[2].o.filename.s
    /\ ret.kind = "return"
    /\ ret.value.source_metadata.filename = SourcesOf(UrlsOfCall)[1].o.filename.s

\* The `releases` items of the payload fetch_package_metadata received.
ReleasesOfResponse == resp.body.json.o.releases.items

\* Some version of `releases` has no "source" artifact.
SomeVersionWithoutSource ==
    \E i \in 1..Len(ReleasesOfResponse) : Len(SourcesOf(ReleasesOfResponse[i].v.a)) = 0

\* The payload reached the aggregation of fetch_package_metadata.
Validated == Done("fetch_package_metadata") /\ Acceptable(resp, "PackageInfo.get_schema(True)")

\* C7 as stated: a version without source artifact makes the operation raise
\* ApiException 'API did not return any source artifacts', whatever else the
\* payload contains.
C7_MissingSourceAlwaysNamed ==
    (Validated /\ SomeVersionWithoutSource)
        => RaisedWith(PypiApiException, "API did not return any source artifacts.")

\* Every "source" artifact of the versions listed before the first version
\* without one is projected without error.
EarlierSourcesProject ==
    \A i \in 1..Len(ReleasesOfResponse) :
        (\A j \in 1..(i - 1) : Len(SourcesOf(ReleasesOfResponse[j].v.a)) > 0)
            => \A k \in 1..Len(SourcesOf(ReleasesOfResponse[i].v.a)) :
                Returned(_parse_version_metadata(SourcesOf(ReleasesOfResponse[i].v.a)[k]))

\* C7: a version without source artifact makes fetch_package_metadata raise
\* ApiException and return no PackageMetadata, whatever the other versions
\* contain; the error is 'API did not return any source artifacts.' when the
\* package-info projection and the projection of the source artifacts listed
\* before that version succeed.
C7_MissingSourceFailsTheOperation ==
    (Validated /\ SomeVersionWithoutSource) =>
        /\ RaisedAs(PypiApiException)
        /\ (Returned(_parse_package_info(resp.body.json)) /\ EarlierSourcesProject)
            => ret.msg = "API did not return any source artifacts."

C7_Witness ==
    /\ Validated
    /\ Len(ReleasesOfResponse) = 2
    /\ Len(SourcesOf(ReleasesOfResponse[1].v.a)) = 2
    /\ Len(SourcesOf(ReleasesOfResponse[2].v.a)) = 0
    /\ RaisedWith(PypiApiException, "API did not return any source artifacts.")

IsHexOfLength(s, n) == Len(s) = n /\ \A i \in 1..n : s[i] \in HexDigits

\* The payload given to _parse_version_metadata conforms to its schema.
ConformingArtifact == VersionMetadataSchema(arg.data)

SizeNotCoercible ==
    \/ IsNull(arg.data.o.size)
    \/ IsStr(arg.data.o.size) /\ ~PyInt(arg.data.o.size).ok

\* The timestamp given to _parse_version_metadata is one fromisoformat reads.
TimestampReadable == fromisoformat(arg.data.o.upload_time_iso_8601).ok

\* C9: a `size` that cannot be coerced to an integer makes
\* _parse_version_metadata fail with ApiException naming the bad value, and
\* with no other kind of error; the str "123" gives the size 123.
C9_BadSizeRaisesApiException ==
    (Done("_parse_version_metadata") /\ TimestampReadable) =>
        /\ SizeNotCoercible => RaisedWith(PypiApiException, "Failed to convert size")
        /\ (arg.data.o.size = JS(Str_123) /\ ret.kind = "return") => ret.value.size = 123

\* The six critical fields, in the order of the checks.
CriticalFields == <<"license", "name", "package_url", "project_url", "release_url", "version">>

\* Whether critical field n of the payload given to _parse_package_info is empty.
EmptyCritical(n) == arg.data.o.info.o[CriticalFields[n]].s = <<>>

\* The projection got as far as the checks of the critical fields.
SourceProjected ==
    /\ Len(SourcesOf(UrlsOfCall)) > 0
    /\ Returned(_parse_version_metadata(SourcesOf(UrlsOfCall)[1]))

\* C10: the package-info projection checks license, name, package_url,
\* project_url, release_url and version for emptiness in that order and
\* raises ApiException naming the first empty one; a PackageInfo is
\* returned only when all six are non-empty.
C10_CriticalFieldsCheckedInOrder ==
    Done("_parse_package_info") =>
        /\ ret.kind = "return" => \A n \in 1..6 : ~EmptyCritical(n)
        /\ SourceProjected =>
            \A n \in 1..6 :
                (EmptyCritical(n) /\ \A m \in 1..(n - 1) : ~EmptyCritical(m))
                    => /\ RaisedWith(PypiApiException, "field is empty")
                       /\ ret.detail = "PackageInfo." \o CriticalFields[n]
        /\ (SourceProjected /\ \A n \in 1..6 : ~EmptyCritical(n)) => ret.kind = "return"

C10_Witness ==
    /\ Done("_parse_package_info")
    /\ SourceProjected
    /\ ~EmptyCritical(1)
    /\ EmptyCritical(2)
    /\ EmptyCritical(6)
    /\ RaisedWith(PypiApiException, "field is empty")
    /\ ret.detail = "PackageInfo.name"


PypiFetchOperations == {"fetch_package_metadata", "fetch_package_version_metadata"}

\* C11: the `releases` mapping of every PackageMetadata returned by
\* fetch_package_metadata or fetch_package_version_metadata is non-empty and
\* has a key equal to info.version.
C11_ReleasesHoldCurrentVersion ==
    (pc = "done" /\ op \in PypiFetchOperations /\ ret.kind = "return")
        => /\ DOMAIN ret.value.releases # {}
           /\ ret.value.info.version \in DOMAIN ret.value.releases

\* The payload lists a version other than info.version, and only that one.
C11_Witness ==
    /\ Aggregated
    /\ Len(ReleasesOfResponse) = 1
    /\ ReleasesOfResponse[1].k # resp.body.json.o.info.o.version.s
    /\ ret.value.info.version = resp.body.json.o.info.o.version.s
    /\ DOMAIN ret.value.releases = {ReleasesOfResponse[1].k, ret.value.info.version}


\* The body of the response fetch_repodata received.
RepodataOfResponse == resp.body.json.o

OptionalPackageFields == {"timestamp", "date", "track_features", "license", "license_family"}

\* The response is one the gateway passes on to the repodata projection.
RepodataValidated == Done("fetch_repodata") /\ Acceptable(resp, "_REPODATA_JSON_SCHEMA")

\* C12: for a schema-valid repodata payload fetch_repodata returns a Repodata
\* whose `packages` has exactly the keys of the input's `packages`, each
\* record with the input's required values verbatim and None for every
\* absent optional field, and whose `removed` and `repodata_version` are the
\* input's.
C12_RepodataProjectedVerbatim ==
    RepodataValidated =>
        /\ ret.kind = "return"
        /\ DOMAIN ret.value.packages = Keys(RepodataOfResponse.packages)
        /\ \A k \in Keys(RepodataOfResponse.packages) :
            /\ \A f \in PackageDataRequired :
                ret.value.packages[k][f] = ItemOf(RepodataOfResponse.packages, k).o[f]
            /\ \A f \in OptionalPackageFields :
                f \notin DOMAIN ItemOf(RepodataOfResponse.packages, k).o
                    => ret.value.packages[k][f] = JN
        /\ ret.value.removed = RepodataOfResponse.removed
        /\ ret.value.repodata_version = RepodataOfResponse.repodata_version

\* The exception of the module an operation belongs to.
ApiExceptionOf(o) == IF o = "fetch_repodata" THEN RepodataApiException ELSE PypiApiException

\* C13: every call of fetch_repodata, fetch_package_metadata or
\* fetch_package_version_metadata returns a record or raises its module's
\* ApiException, whatever the HTTP response is.
C13_OnlyApiExceptionEscapes ==
    (pc = "done" /\ op \in FetchOperations)
        => (ret.kind = "return" \/ RaisedAs(ApiExceptionOf(op)))


\* Two PackageData records are compared with `<` or with `>`.
Ordered ==
    /\ pc = "done"
    /\ op \in {"PackageData.__lt__", "PackageData.__gt__"}
    /\ IsPackageData(arg.rhs)

\* C14: for two PackageData records with different names neither `a < b`
\* nor `a > b` is true, whatever their versions and build numbers.
C14_DifferentNamesAreIncomparable ==
    (Ordered /\ arg.lhs.name # arg.rhs.name) => ret = Return(FALSE)

\* Different names, and versions that would order the records either way.
C14_Witness ==
    /\ Ordered
    /\ arg.lhs.name = JS(Str_foobar)
    /\ arg.rhs.name = JS(Str_baz)
    /\ arg.lhs.version = JS(<<"0", ".", "1", ".", "0">>)
    /\ arg.rhs.version = JS(<<"1", ".", "0", ".", "0">>)
    /\ ret = Return(FALSE)


\* `a < b` was evaluated on two PackageData records of the same name.
SameNameLt ==
    /\ Done("PackageData.__lt__")
    /\ IsPackageData(arg.rhs)
    /\ arg.lhs.name = arg.rhs.name

\* VersionOrder accepts the version string.
Parseable(version) == Returned(VersionOrder(version))

\* The version string is made of dotted numerals only.
IsDottedNumeric(version) ==
    \A k \in 1..Len(SplitDots(version, <<>>)) : AllDigits(SplitDots(version, <<>>)[k])

\* The numeric segments of a dotted version, and segment i of them (0 beyond the last).
Segments(version) ==
    [k \in 1..Len(SplitDots(version, <<>>)) |-> DecimalValue(SplitDots(version, <<>>)[k])]

SegmentAt(segments, i) == IF i > Len(segments) THEN 0 ELSE segments[i]

SegmentsEq(a, b) == \A i \in 1..Max2(Len(a), Len(b)) : SegmentAt(a, i) = SegmentAt(b, i)

SegmentsLt(a, b) ==
    \E i \in 1..Max2(Len(a), Len(b)) :
        /\ SegmentAt(a, i) < SegmentAt(b, i)
        /\ \A j \in 1..(i - 1) : SegmentAt(a, j) = SegmentAt(b, j)

BuildLt == arg.lhs.build_number.n < arg.rhs.build_number.n

\* C15: for two PackageData records of the same name with parseable
\* versions, `a < b` holds exactly when a's version orders before b's, or
\* the versions are equal in the version ordering and a.build_number <
\* b.build_number; numeric segments compare numerically.
C15_VersionThenBuildNumber ==
    (SameNameLt /\ Parseable(arg.lhs.version.s) /\ Parseable(arg.rhs.version.s)) =>
        /\ ret.kind = "return"
        /\ ret.value <=>
            \/ VersionOrderLt(VersionOrder(arg.lhs.version.s).value,
                              VersionOrder(arg.rhs.version.s).value)
            \/ /\ VersionOrderEq(VersionOrder(arg.lhs.version.s).value,
                                 VersionOrder(arg.rhs.version.s).value)
               /\ BuildLt
        /\ (IsDottedNumeric(arg.lhs.version.s) /\ IsDottedNumeric(arg.rhs.version.s)) =>
            (ret.value <=>
                \/ SegmentsLt(Segments(arg.lhs.version.s), Segments(arg.rhs.version.s))
                \/ /\ SegmentsEq(Segments(arg.lhs.version.s), Segments(arg.rhs.version.s))
                   /\ BuildLt)

\* Versions that are equal in the ordering but not as strings: the build
\* number decides.
C15_Witness ==
    /\ SameNameLt
    /\ arg.lhs.version = JS(<<"1", ".", "0">>)
    /\ arg.rhs.version = JS(<<"1", ".", "0", ".", "0">>)
    /\ arg.lhs.build_number = JI(0)
    /\ arg.rhs.build_number = JI(1)
    /\ ret = Return(TRUE)


\* C16: when either record of a same-named pair has a version string that
\* cannot be parsed (the empty string, for one), `a < b` and `a > b` are
\* both false and no error is raised.
C16_UnparseableVersionIsNotLess ==
    (Ordered /\ arg.lhs.name = arg.rhs.name
        /\ (~Parseable(arg.lhs.version.s) \/ ~Parseable(arg.rhs.version.s)))
        => ret = Return(FALSE)

\* The record on the right has the empty version.
C16_Witness ==
    /\ Done("PackageData.__gt__")
    /\ IsPackageData(arg.rhs)
    /\ arg.lhs.name = arg.rhs.name
    /\ arg.lhs.version = JS(<<"v", "1", ".", "0", ".", "0">>)
    /\ arg.rhs.version = JS(<<>>)
    /\ ret = Return(FALSE)


\* The version string without its leading `v`, if it has one.
WithoutLeadingV(version) ==
    IF Len(version) > 0 /\ version[1] \in {"v", "V"} THEN Tail(version) ELSE version

\* The version is dotted numerals, with or without a leading `v`.
IsDottedAfterV(version) ==
    Len(WithoutLeadingV(version)) > 0 /\ IsDottedNumeric(WithoutLeadingV(version))

\* C17: the ordering of same-named PackageData records is regardless of a
\* leading `v`: the result of `<` is the one the dotted numeric segments
\* give (then the build number), whether or not either version carries a
\* leading `v`.
C17_LeadingVIsIgnored ==
    (SameNameLt /\ IsDottedAfterV(arg.lhs.version.s) /\ IsDottedAfterV(arg.rhs.version.s)) =>
        /\ ret.kind = "return"
        /\ ret.value <=>
            \/ SegmentsLt(Segments(WithoutLeadingV(arg.lhs.version.s)),
                          Segments(WithoutLeadingV(arg.rhs.version.s)))
            \/ /\ SegmentsEq(Segments(WithoutLeadingV(arg.lhs.version.s)),
                             Segments(WithoutLeadingV(arg.rhs.version.s)))
               /\ BuildLt

\* The two records of an `==` call differ in the field `field` and in no other.
DifferOnlyIn(field) ==
    /\ IsPackageData(arg.rhs)
    /\ arg.lhs[field] # arg.rhs[field]
    /\ [arg.lhs EXCEPT ![field] = arg.rhs[field]] = arg.rhs

\* C18: `==` on PackageData is field-wise: two records are equal exactly when
\* they are the same record field by field, so records that differ only in
\* name or only in build_number are unequal, and a record never equals a value
\* that is not a PackageData.
C18_EqualityIsFieldWise ==
    Done("PackageData.__eq__") =>
        /\ ret.kind = "return"
        /\ ret.value <=> arg.lhs = arg.rhs
        /\ (DifferOnlyIn("name") \/ DifferOnlyIn("build_number")) => ~ret.value
        /\ arg.rhs \in OtherValues => ~ret.value

\* Two records with the same name and version and different build numbers
\* were compared and found unequal.
C18_Witness ==
    /\ Done("PackageData.__eq__")
    /\ DifferOnlyIn("build_number")
    /\ ret = Return(FALSE)

\* The string given to a hash validator has exactly n characters, each one of
\* 0-9, a-f or A-F.
HashShaped(n) ==
    /\ Len(arg.s) = n
    /\ \A i \in 1..Len(arg.s) :
           \/ arg.s[i] \in DigitChars
           \/ arg.s[i] \in {"a", "b", "c", "d", "e", "f"}
           \/ arg.s[i] \in {"A", "B", "C", "D", "E", "F"}

\* C19: is_valid_md5, is_valid_sha1 and is_valid_sha256 return true exactly
\* for strings of 32, 40 and 64 characters of [0-9a-fA-F], and false for a
\* string of any other length or with any other character.
C19_HashValidatorsCheckLengthAndAlphabet ==
    /\ Done("is_valid_md5") => ret = Return(HashShaped(32))
    /\ Done("is_valid_sha1") => ret = Return(HashShaped(40))
    /\ Done("is_valid_sha256") => ret = Return(HashShaped(64))

\* is_valid_sha1 accepted a string of 40 upper-case hex digits.
C19_Witness ==
    /\ Done("is_valid_sha1")
    /\ arg.s = Rep("F", 40)
    /\ ret = Return(TRUE)

RECURSIVE Pow16(_)
Pow16(n) == IF n = 0 THEN 1 ELSE 16 * Pow16(n - 1)

\* The digit c of base 16 as a number.
Base16Digit(c) ==
    CASE c \in DigitChars -> DigitVal(c)
      [] c \in {"a", "A"} -> 10
      [] c \in {"b", "B"} -> 11
      [] c \in {"c", "C"} -> 12
      [] c \in {"d", "D"} -> 13
      [] c \in {"e", "E"} -> 14
      [] c \in {"f", "F"} -> 15

\* The value in base 16 of the digits s[i..], most significant first.
RECURSIVE Base16From(_, _)
Base16From(s, i) ==
    IF i > Len(s) THEN 0
    ELSE Base16Digit(s[i]) * Pow16(Len(s) - i) + Base16From(s, i + 1)

\* The string given to cast_hex_str_to_int is a non-empty string of hex digits.
HexDigitString == Len(arg.s) > 0 /\ is_valid_hex(arg.s)

\* C20: cast_hex_str_to_int returns the base-16 value of every non-empty
\* string of hex digits and fails for every string that is_valid_hex rejects.
C20_CastsHexAndRejectsTheRest ==
    Done("cast_hex_str_to_int") =>
        /\ HexDigitString => ret = Return(Base16From(arg.s, 1))
        /\ ~is_valid_hex(arg.s) => ret.kind = "raise"

\* The tables that loading file a and file b should give.
TableOfA ==
    (KeyPath(Key_token, Key_github) :> "gh-a") @@ (KeyPath(Key_token, Key_jira) :> "jira-a")
    @@ (KeyPath(Key_user_info, Key_email) :> "a@anaconda.com")
    @@ (KeyPath(Key_local_path, Key_aggregate) :> "/a/aggregate")

TableOfB ==
    (KeyPath(Key_token, Key_github) :> "gh-b")
    @@ (KeyPath(Key_local_path, Key_aggregate) :> "/b/aggregate")

\* Every construction so far, ended or running, was given `path`.
OnlyPath(path) ==
    /\ \A i \in 1..Len(constructed) : constructed[i].file_path = path
    /\ \A t \in Threads : threads[t].pc # "idle" => threads[t].file_path = path

\* C21: the file of a path is opened and loaded exactly once: of any number of
\* constructions with the same path, one after another or in several threads
\* at once, only the first opens the file, and every instance sees the one
\* loaded table.
C21_FileLoadedOnce ==
    /\ \A i \in 2..Len(constructed) :
           constructed[i].file_path = constructed[i - 1].file_path => ~constructed[i].read
    /\ \A path \in FilePaths : OnlyPath(path) =>
           /\ Len(opened) <= 1
           /\ \A i \in 1..Len(constructed) : constructed[i].read <=> i = 1
    /\ OnlyPath("a") =>
           \A i \in 1..Len(constructed) :
               constructed[i].outcome.kind = "return" /\ constructed[i].tbl = TableOfA

\* Two threads have constructed with the same path: the file was opened once,
\* by the first, and the second returned with the table the first loaded.
C21_Witness ==
    /\ Len(constructed) = 2 /\ opened = <<"a">>
    /\ constructed[1].file_path = "a" /\ constructed[2].file_path = "a"
    /\ constructed[1].thread # constructed[2].thread
    /\ constructed[1].read /\ ~constructed[2].read
    /\ constructed[2].outcome.kind = "return" /\ constructed[2].tbl = TableOfA

\* The construction that ended last loaded file b after a construction that
\* loaded file a, and nothing is running.
LoadedBAfterA ==
    /\ Len(constructed) >= 2
    /\ \A t \in Threads : threads[t].pc = "idle"
    /\ \E i \in {Len(constructed)} :
           /\ constructed[i].file_path = "b" /\ constructed[i].outcome.kind = "return"
           /\ constructed[i].read
           /\ constructed[i - 1].file_path = "a" /\ constructed[i - 1].outcome.kind = "return"

\* The key-paths that file a has and file b has not.
OnlyInA == DOMAIN TableOfA \ DOMAIN TableOfB

\* C22: a construction with another path invalidates the cache: after file b
\* was loaded following file a the table is that of file b, and a key-path
\* that only file a has is not found by `in` or `[]`.
C22_OtherPathReplacesTable ==
    LoadedBAfterA =>
        /\ _config_tbl = TableOfB
        /\ (lookup.op # "none" /\ lookup.after = Len(constructed) /\ lookup.key \in OnlyInA) =>
               \/ lookup.op = "__contains__" /\ lookup.outcome = Return(FALSE)
               \/ lookup.op = "__getitem__" /\ lookup.outcome.kind = "raise"

\* C23: a construction with a path that has no file raises FileNotFoundError
\* and one with a file that violates the schema raises ValidationError, every
\* time, whatever was constructed before.
C23_BadFileAlwaysRaises ==
    \A i \in 1..Len(constructed) :
        /\ ~FileExists(constructed[i].file_path) =>
               (constructed[i].outcome.kind = "raise"
                /\ constructed[i].outcome.exc = "FileNotFoundError")
        /\ constructed[i].file_path = "invalid" =>
               (constructed[i].outcome.kind = "raise"
                /\ constructed[i].outcome.exc = "ValidationError")

\* The command is a `cd`: it begins with the letters c and d and a space.
CdAt(i) ==
    /\ Len(arg.cmds[i]) >= 3
    /\ arg.cmds[i][1] = "c" /\ arg.cmds[i][2] = "d" /\ arg.cmds[i][3] = " "

\* The commands among the first n that were run in a shell, in list order.
ShellRunsAmong(n) == SelectSeq([i \in 1..n |-> i], LAMBDA i : ~CdAt(i))

\* C24: run_shell_chain processes the commands in list order and returns one
\* result per processed command: with is_fatal_error it stops right after the
\* first command whose return code is not 0, which is then the last result and
\* no later command is run; without it every command is processed and the
\* list of results is as long as the list of commands.
C24_ChainStopsOnlyOnFatalError ==
    Done("run_shell_chain") =>
        /\ ret.kind = "return"
        /\ Len(ret.value) <= Len(arg.cmds)
        /\ \A i \in 1..Len(ret.value) : ret.value[i].args = arg.cmds[i]
        /\ [j \in 1..Len(ran) |-> ran[j].index] = ShellRunsAmong(Len(ret.value))
        /\ ~arg.is_fatal_error => Len(ret.value) = Len(arg.cmds)
        /\ arg.is_fatal_error =>
               /\ \A i \in 1..Len(ret.value) - 1 : ret.value[i].returncode = 0
               /\ Len(ret.value) < Len(arg.cmds) =>
                      ret.value[Len(ret.value)].returncode # 0

\* The directory that command i should run in: what the last `cd` before it
\* names, or the cwd argument if there is none.
DirectoryFor(i) ==
    IF \E k \in 1..i - 1 : CdAt(k)
    THEN Let(CHOOSE k \in 1..i - 1 : CdAt(k) /\ \A m \in k + 1..i - 1 : ~CdAt(m),
             LAMBDA k : SubSeq(arg.cmds[k], 4, Len(arg.cmds[k])))
    ELSE arg.cwd

\* C25: a command starting with `cd ` is never run in a shell: its result is
\* made up, with return code 0 and empty stdout and stderr, it never stops the
\* chain, and it names the directory of every later command up to the next
\* `cd`; commands before the first `cd` run in the cwd argument.
C25_CdSetsWorkingDirectory ==
    op = "run_shell_chain" =>
        /\ \A i \in 1..Len(completed_procs) : CdAt(i) =>
               /\ completed_procs[i] =
                      [args |-> arg.cmds[i], returncode |-> 0, stdout |-> "", stderr |-> ""]
               /\ \A j \in 1..Len(ran) : ran[j].index # i
        /\ \A j \in 1..Len(ran) :
               /\ ~CdAt(ran[j].index)
               /\ ran[j].cmd = arg.cmds[ran[j].index]
               /\ ran[j].cwd = DirectoryFor(ran[j].index)
        /\ (pc = "done" /\ ret.kind = "return" /\ Len(ret.value) < Len(arg.cmds)) =>
               ~CdAt(Len(ret.value))
        /\ (pc = "done" /\ ret.kind = "raise") => ~CdAt(Len(completed_procs) + 1)

\* The chain pwd, cd /usr/bin, pwd has ended: the first pwd ran in the cwd
\* argument, the cd was not run, and the second pwd ran in /usr/bin.
C25_Witness ==
    /\ Done("run_shell_chain")
    /\ arg.cmds = <<Cmd_pwd, Cmd_cd_usr_bin, Cmd_pwd>> /\ arg.cwd = Dir_tests
    /\ ret.kind = "return" /\ Len(ret.value) = 3
    /\ ret.value[2] = [args |-> Cmd_cd_usr_bin, returncode |-> 0, stdout |-> "", stderr |-> ""]
    /\ ran = <<[index |-> 1, cmd |-> Cmd_pwd, cwd |-> Dir_tests],
               [index |-> 3, cmd |-> Cmd_pwd, cwd |-> Dir_usr_bin]>>

\* The checks of the gateway in the order of the contract, and the message
\* each raises with.
CheckOrder ==
    <<[check |-> "get", msg |-> "GET request failed."],
      [check |-> "response", msg |-> "HTTP response was never set."],
      [check |-> "status", msg |-> "API returned a non-200 HTTP status code"],
      [check |-> "header", msg |-> "API returned with no content-type header."],
      [check |-> "content-type", msg |-> "API returned a non-JSON content-type"],
      [check |-> "json", msg |-> "Failed to parse JSON response."],
      [check |-> "schema", msg |-> "Returned JSON does not match minimum schema."]>>

\* The response fails the k-th check, whatever the other checks say of it.
FailsCheck(k) ==
    CASE k = 1 -> resp.transport = "raise"
      [] k = 2 -> resp.transport = "none"
      [] k = 3 -> resp.transport = "ok" /\ resp.status # 200
      [] k = 4 -> resp.transport = "ok" /\ "content-type" \notin DOMAIN resp.headers
      [] k = 5 -> /\ resp.transport = "ok" /\ "content-type" \in DOMAIN resp.headers
                  /\ resp.headers["content-type"] # "application/json"
      [] k = 6 -> resp.transport = "ok" /\ ~resp.body.parse
      [] k = 7 -> /\ resp.transport = "ok" /\ resp.body.parse
                  /\ ~schema_validate(resp.body.json, arg.schema)

FailedChecks == {k \in 1..7 : FailsCheck(k)}

FirstFailedCheck == CHOOSE k \in FailedChecks : \A m \in FailedChecks : k <= m

\* C26: make_request_and_validate applies its checks in a fixed order
\* (transport, response present, status code, content-type present,
\* content-type value, JSON parse, schema) and raises the error of the first
\* that fails: a response that is not 200 reports the status code even if its
\* header and body are bad too, and the body is parsed only after the status
\* and content-type checks have passed.
C26_FirstFailingCheckDecides ==
    Done("make_request_and_validate") =>
        /\ FailedChecks # {} =>
               /\ RaisedWith("BaseApiException", CheckOrder[FirstFailedCheck].msg)
               /\ checks = [k \in 1..FirstFailedCheck |-> CheckOrder[k].check]
        /\ (\E k \in 1..Len(checks) : checks[k] = "json") =>
               /\ resp.status = 200
               /\ resp.headers["content-type"] = "application/json"

\* A 404 without a content-type header and with a body that is not JSON was
\* reported as a 404.
C26_Witness ==
    /\ Done("make_request_and_validate")
    /\ resp = Response(404, NoHeaders, Unparseable)
    /\ RaisedWith("BaseApiException", "API returned a non-200 HTTP status code")
    /\ ret.detail = 404
    /\ checks = <<"get", "response", "status">>

\* C27 as stated: the entry of the package-info's own version is the source
\* VersionMetadata embedded in PackageInfo, whatever `releases` lists.
C27_OwnVersionIsInfoSource ==
    Aggregated =>
        ret.value.releases[ret.value.info.version] = ret.value.info.source_metadata

\* The items of `releases` that list the package-info's own version.
OwnVersionListed == {i \in 1..Len(ReleasesOfResponse) :
                        ReleasesOfResponse[i].k = ret.value.info.version}

\* C27: the entry of the package-info's own version is the source
\* VersionMetadata embedded in PackageInfo when `releases` does not list that
\* version; when it does, the entry is a source artifact of that item of
\* `releases`, which overrides the seed.
C27_ReleasesOverrideSeed ==
    Aggregated =>
        /\ OwnVersionListed = {} =>
               ret.value.releases[ret.value.info.version] = ret.value.info.source_metadata
        /\ \A i \in OwnVersionListed :
               \E k \in 1..Len(SourcesOf(ReleasesOfResponse[i].v.a)) :
                   _parse_version_metadata(SourcesOf(ReleasesOfResponse[i].v.a)[k])
                       = Return(ret.value.releases[ret.value.info.version])

\* `releases` lists the package-info's own version with a source artifact
\* other than that of `urls`, and the entry returned is that of `releases`.
C27_Witness ==
    /\ Aggregated
    /\ OwnVersionListed # {}
    /\ ret.value.releases[ret.value.info.version] # ret.value.info.source_metadata
    /\ \E i \in OwnVersionListed :
           ret.value.releases[ret.value.info.version].filename
               = SourcesOf(ReleasesOfResponse[i].v.a)[1].o.filename.s

\* C28: across any sequence of calls, get_schema(False) returns a schema
\* whose required list is [info, urls] and get_schema(True) one whose required
\* list is [info, urls, releases]: no call changes the schema another call
\* returns or has returned.
C28_SchemasAreIndependent ==
    \A i \in 1..Len(returned) :
        required_lists[returned[i].ref] =
            IF returned[i].requires_releases THEN <<"info", "urls", "releases">>
            ELSE <<"info", "urls">>

\* get_schema(True) was called twice and get_schema(False) after that.
C28_Witness ==
    /\ Len(returned) = 3
    /\ returned[1].requires_releases /\ returned[2].requires_releases
    /\ ~returned[3].requires_releases
    /\ required_lists[returned[3].ref] = <<"info", "urls">>
    /\ required_lists[returned[2].ref] = <<"info", "urls", "releases">>

\* How many of the constructor calls logged gave a client.
ClientsMade(log) == Cardinality({i \in 1..Len(log) : log[i] = "client"})

\* The last call was a construction in which the client library was reached
\* and refused the credentials.
AuthenticationFailed(name, list) ==
    /\ op = name /\ list = <<>>
    /\ arg.config = "loaded" /\ arg.client = "raises"

\* C29: across any sequence of GitHubApi() and JiraApi() constructions the
\* static list of each class never holds more than one client and no client
\* is constructed after one was constructed with success; a construction whose
\* authentication fails raises ApiException and leaves the list empty, so the
\* next construction tries again.
C29_AtMostOneClient ==
    /\ Len(_gh) <= 1 /\ Len(_jira) <= 1
    /\ Len(_gh) = ClientsMade(built.github) /\ Len(_jira) = ClientsMade(built.jira)
    /\ \A i \in 1..Len(built.github) : built.github[i] = "client" => i = Len(built.github)
    /\ \A i \in 1..Len(built.jira) : built.jira[i] = "client" => i = Len(built.jira)
    /\ AuthenticationFailed("GitHubApi", _gh) => RaisedAs(GithubApiException)
    /\ AuthenticationFailed("JiraApi", _jira) => RaisedAs(JiraApiException)
    /\ (op = "GitHubApi" /\ ret.kind = "raise") => _gh = <<>>
    /\ (op = "JiraApi" /\ ret.kind = "raise") => _jira = <<>>

\* GitHubApi() failed to authenticate, the next construction tried again and
\* got a client, and a construction after that did not reach the client
\* library although it would have raised.
C29_Witness ==
    /\ built.github = <<"raises", "client">>
    /\ Len(_gh) = 1
    /\ op = "GitHubApi" /\ arg.config = "loaded" /\ arg.client = "raises"
    /\ ret = Return("None")

\* C30: the SHA fetch_feedstock returns is None or a valid SHA-1 of 40 hex
\* characters; a failure to get it from `aggregate` (an exception, a list, an
\* invalid SHA) never keeps the feedstock from being fetched and returned;
\* ApiException is raised only when `aggregate` or the feedstock cannot be
\* accessed.
C30_ShaIsValidOrNone ==
    op = "fetch_feedstock" =>
        /\ ret.kind = "return" =>
               \/ ret.value.sha = JN
               \/ ret.value.sha.t = "str" /\ IsHexOfLength(ret.value.sha.s, 40)
        /\ (arg.aggregate = "repo" /\ arg.feedstock = "repo") =>
               /\ ret.kind = "return"
               /\ (arg.contents.kind = "file" /\ arg.contents.sha # JN
                   /\ IsHexOfLength(arg.contents.sha.s, 40)) => ret.value.sha = arg.contents.sha
        /\ ret.kind = "raise" =>
               /\ ret.exc = GithubApiException
               /\ arg.aggregate = "raises" \/ arg.feedstock = "raises"

\* The submodule named a SHA of 39 characters and the feedstock was returned
\* with no SHA.
C30_Witness ==
    /\ op = "fetch_feedstock"
    /\ arg.contents = [kind |-> "file", sha |-> JS(Rep("5", 39))]
    /\ ret.kind = "return" /\ ret.value.sha = JN

====
